---- MODULE Spec2Model ----
(***************************************************************************)
(* Model of integration_tools: the bounded batch executor of               *)
(* AsyncRequestManager (download_files_batch / restore_files_batch over    *)
(* RequestManager.download_files / restore_files and the manager's single  *)
(* FileManager) and the workflow sequencer of CommonWorkflows.             *)
(*                                                                         *)
(* SpecBatch    : one call of download_files_batch or restore_files_batch. *)
(* SpecWorkflow : one call of a CommonWorkflows method.                    *)
(* SpecPath     : FileManager.db_windows_path_to_remote_sftp_path, called  *)
(*                on a path and again on its own result.                   *)
(* SpecMonitor  : integration_monitoring_workflow over a Request table     *)
(*                (find_latest_requests and the analysis loop).            *)
(* SpecRerun    : rerun_requests (resolve, clear_checksums,                *)
(*                bump_latest_queue) and the querying operations over the  *)
(*                Request, upload, checksum and queue tables.              *)
(* SpecBatchFair: SpecBatch under the scheduling of the event loop and the *)
(*                executor (termination).                                  *)
(* SpecFind     : find_requests / find_latest_requests, called directly or *)
(*                by a workflow that reruns what was found.                *)
(* SpecDownload : FileManager.download_files_for_requests.                 *)
(* SpecRetry    : the wrapper of retry_with_backoff.                       *)
(***************************************************************************)
EXTENDS Integers, Sequences, FiniteSets, TLC

\* ---------------------------------------------------------------- bounds
MaxIds == 2            \* longest request_ids list of a batch call
MaxConcurrent == 2     \* largest max_concurrent of a batch call
MaxFound == 2          \* most requests the find step returns to a workflow
MaxFiles == 2          \* most files one request's download reports
MaxRequests == 2       \* most rows of the Request table
MaxRerunIds == 2       \* longest request_ids list of a rerun_requests call
MaxQueue == 2          \* most rows of the xpsQueue table
MaxPathTokens == 4     \* most pieces a resolver input is built from
MaxDownloadIds == 2    \* longest request_ids list of download_files_for_requests
MaxRetries == 3        \* largest max_retries of retry_with_backoff

\* The request ids the inputs are drawn from (two ids give duplicates and
\* distinct ids in one list).
RequestIdUniverse == {1, 2}

\* None of the Python source: FileManager._sftp_client = None, a local not yet bound.
None == 0

VARIABLES
    \* --- AsyncRequestManager.download_files_batch / restore_files_batch
    op,                       \* "download" | "restore": which batch method runs
    request_ids,              \* the request_ids argument (a list, duplicates allowed)
    max_concurrent,           \* the max_concurrent argument
    semaphore,                \* free slots of asyncio.Semaphore(max_concurrent)
    pc,                       \* pc[i]: position of the task of item i
    request_to_path,          \* restore_files: whether req_id got a remote path
    sftp,                     \* the local `sftp` of download_files / restore_files
    thread_raised,            \* the worker thread's call raised
    thread_result,            \* the dict download_files / restore_files returned
    task_entry,               \* second component of the tuple the task returns
    fm_ssh_client,            \* self.file_manager._ssh_client (shared)
    fm_sftp_client,           \* self.file_manager._sftp_client (shared)
    conn_open,                \* connections (by opening item) still open
    cached_sftp_credentials,  \* self._cached_sftp_credentials is set
    final_results,            \* the dict the batch call returns
    batch_pc,                 \* "gather" | "returned"
    \* --- CommonWorkflows
    workflow,                 \* which workflow method runs
    restore_files,            \* district_refresh_workflow(restore_files=...)
    delete_checksums,         \* district_refresh_workflow(delete_checksums=...)
    wf_pc,                    \* position in the workflow body
    calls,                    \* request-manager operations invoked so far, in order
    requests,                 \* what find_requests returned (list of request ids)
    completed_steps,          \* the local completed_steps
    workflow_data,            \* keys of the local workflow_data dict
    rerun_args,               \* the request_ids passed to rerun_requests
    batch_result,             \* what the awaited batch call returned (id -> success)
    exception_at,             \* the operation that raised ("none" if none did)
    wf_raised,                \* the workflow raised to its caller
    wf_result,                \* the WorkflowResult returned
    files_downloaded,         \* files_downloaded of each download_results entry
    summary,                  \* workflow_data["summary"] of bulk_file_download_workflow
    \* --- FileManager.db_windows_path_to_remote_sftp_path
    db_path,                  \* the db_path argument (a string, as its characters)
    remote_path,              \* what the call returned
    remote_path2,             \* what a second call, on that result, returned
    path_pc,                  \* "idle" | "start" | "resolved" | "again"
    \* --- integration_monitoring_workflow over the Request table
    request_table,            \* the Request rows of the database, by RequestID
    integration_types,        \* the integration_types argument (name prefixes)
    days_back,                \* the days_back argument
    all_requests,             \* what find_requests returned
    analysis,                 \* the local analysis dict
    monitor_data,             \* workflow_data: total_requests and summary counts
    mon_pc,                   \* "idle" | "start" | "failed" | "empty" | "analysed"
    \* --- RequestManager.rerun_requests and the database tables
    db_requests,              \* the Request table (RequestID -> row)
    checksums,                \* UploadFileIntegrationChecksum: <<upload id, key>> rows
    xps_queue,                \* xpsQueue rows, by xpsQueueID
    rr_request_ids,           \* rerun_requests(request_ids=...)
    rr_delete_checksums,      \* rerun_requests(delete_checksums=...)
    checksum_keys,            \* rerun_requests(checksum_keys=...), {} for None
    districts,                \* the local districts list
    dir_paths,                \* the local dir_paths list
    deleted,                  \* the local deleted (rows clear_checksums reported)
    updated,                  \* the local updated (rows bump_latest_queue reported)
    bump_calls,               \* calls of bump_latest_queue issued so far
    rerun_pc,                 \* "idle" | "start" | "clear" | "bump" | "returned" | "raised"
    db_failed,                \* a database call failed for an outside reason
    last_op,                  \* the operation started last ("none" before the first)
    \* find_latest_requests and the workflows that rerun what it finds
    find_table,               \* the Request table the query reads
    find_caller,              \* "find_requests" | "district_refresh_workflow" | "batch_rerun_by_district"
    arg_type_ids,             \* the type_ids argument
    arg_type_names,           \* the type_names / type_name_prefixes argument
    arg_district_ids,         \* the district_ids argument
    arg_statuses,             \* the statuses argument
    found_requests,           \* the list find_requests returned
    processed_ids,            \* the request_ids the workflow restores and reruns
    find_pc,                  \* "idle" | "start" | "found" | "rerun" | "returned"
    \* FileManager.download_files_for_requests
    dl_request_ids,           \* the request_ids argument
    dl_idx,                   \* position of the id the loop handles next
    dl_results,               \* the local results dict
    dl_attempts,              \* the download attempts made so far, in order
    dl_pc,                    \* "idle" | "start" | "loop" | "returned" | "raised"
    \* the wrapper of retry_with_backoff
    max_retries,              \* the decorator's max_retries
    initial_delay,            \* the decorator's initial_delay
    backoff_factor,           \* the decorator's backoff_factor
    attempt,                  \* the loop variable attempt
    delay,                    \* the local delay
    last_exception,           \* the local last_exception (None or the invocation that raised it)
    invocations,              \* outcomes of the invocations of func so far, in order
    sleeps,                   \* the delays slept so far, in order
    retry_outcome,            \* what the wrapper returned or raised
    retry_pc                  \* "idle" | "call" | "sleep" | "returned" | "raised"

batch_vars == <<op, request_ids, max_concurrent, semaphore, pc, request_to_path,
                sftp, thread_raised, thread_result, task_entry, fm_ssh_client,
                fm_sftp_client, conn_open, cached_sftp_credentials,
                final_results, batch_pc>>

wf_vars == <<workflow, restore_files, delete_checksums, wf_pc, calls, requests,
             completed_steps, workflow_data, rerun_args, batch_result,
             exception_at,
             wf_raised, wf_result, files_downloaded, summary>>

path_vars == <<db_path, remote_path, remote_path2, path_pc>>

mon_vars == <<request_table, integration_types, days_back, all_requests,
              analysis, monitor_data, mon_pc>>

rerun_vars == <<db_requests, checksums, xps_queue, rr_request_ids,
                rr_delete_checksums, checksum_keys, districts, dir_paths,
                deleted, updated, bump_calls, rerun_pc, db_failed, last_op>>

find_vars == <<find_table, find_caller, arg_type_ids, arg_type_names,
               arg_district_ids, arg_statuses, found_requests, processed_ids,
               find_pc>>

dl_vars == <<dl_request_ids, dl_idx, dl_results, dl_attempts, dl_pc>>

retry_vars == <<max_retries, initial_delay, backoff_factor, attempt, delay,
                last_exception, invocations, sleeps, retry_outcome, retry_pc>>

core_aux_vars == <<path_vars, mon_vars, rerun_vars>>

ext_vars == <<find_vars, dl_vars, retry_vars>>

aux_vars == <<core_aux_vars, ext_vars>>

vars == <<batch_vars, wf_vars, aux_vars>>

\* ------------------------------------------------------------- helpers
Items == DOMAIN request_ids

EmptyMap == [k \in {} |-> [success |-> FALSE, message |-> ""]]

Put(m, k, v) == [x \in (DOMAIN m) \cup {k} |-> IF x = k THEN v ELSE m[x]]

\* One entry of a per-request result dict (success flag and message).
Entry(ok, msg) == [success |-> ok, message |-> msg]

SeqsUpTo(S, n) == UNION {[1..k -> S] : k \in 0..n}

\* No call of the path resolver is in progress.
PathIdle ==
    /\ db_path = <<>>
    /\ remote_path = <<>>
    /\ remote_path2 = <<>>
    /\ path_pc = "idle"

\* {"success": 0, "failed": 0}
ZeroCount == [success |-> 0, failed |-> 0]

\* analysis = {"by_status": ..., "by_type": {}, "by_district": {}, ...}
EmptyAnalysis ==
    [by_status |-> ZeroCount, by_type |-> EmptyMap, by_district |-> EmptyMap,
     failed_requests |-> <<>>, districts_with_failures |-> {}]

\* No monitoring run is in progress.
MonitorIdle ==
    /\ request_table = <<>>
    /\ integration_types = {}
    /\ days_back = 0
    /\ all_requests = <<>>
    /\ analysis = EmptyAnalysis
    /\ monitor_data = [total_requests |-> 0, healthy_districts |-> 0,
                       districts_with_issues |-> 0]
    /\ mon_pc = "idle"

\* No rerun_requests call is in progress (the tables are not looked at).
RerunIdle ==
    /\ db_requests = <<>>
    /\ checksums = {}
    /\ xps_queue = <<>>
    /\ rr_request_ids = <<>>
    /\ rr_delete_checksums = FALSE
    /\ checksum_keys = {}
    /\ districts = <<>>
    /\ dir_paths = <<>>
    /\ deleted = 0
    /\ updated = 0
    /\ bump_calls = 0
    /\ rerun_pc = "idle"
    /\ db_failed = FALSE
    /\ last_op = "none"

\* No find is in progress.
FindIdle ==
    /\ find_table = <<>>
    /\ find_caller = "none"
    /\ arg_type_ids = {}
    /\ arg_type_names = {}
    /\ arg_district_ids = {}
    /\ arg_statuses = {}
    /\ found_requests = <<>>
    /\ processed_ids = <<>>
    /\ find_pc = "idle"

\* No download_files_for_requests call is in progress.
DownloadIdle ==
    /\ dl_request_ids = <<>>
    /\ dl_idx = 0
    /\ dl_results = <<>>
    /\ dl_attempts = <<>>
    /\ dl_pc = "idle"

\* No wrapped function is being called.
RetryIdle ==
    /\ max_retries = 0
    /\ initial_delay = 0
    /\ backoff_factor = 0
    /\ attempt = 0
    /\ delay = 0
    /\ last_exception = None
    /\ invocations = <<>>
    /\ sleeps = <<>>
    /\ retry_outcome = [kind |-> "none", of |-> None]
    /\ retry_pc = "idle"

ExtIdle == FindIdle /\ DownloadIdle /\ RetryIdle

AuxIdle == PathIdle /\ MonitorIdle /\ RerunIdle /\ ExtIdle

\* ====================================================================
\* AsyncRequestManager.download_files_batch / restore_files_batch
\* ====================================================================

\* Positions of a per-item task (download_single / restore_single):
\*   "pending"  created by the list comprehension, waiting at `async with semaphore`
\*   "admitted" holds a slot; the call is submitted to the executor
\*   "connect"  worker thread runs download_files / restore_files, before
\*              fm.create_sftp_connection
\*   "work"     inside `with self.file_manager as fm`, connection created
\*   "exit"     leaving the with block (FileManager.__exit__ pending)
\*   "finished" the worker thread's call returned or raised
\*   "done"     the task built its tuple (or took the exception), slot released
Running == {"connect", "work", "exit"}
Holding == {"admitted", "connect", "work", "exit", "finished"}

InProgress == {i \in Items : pc[i] \in Running}

\* Variant of CanAcquire: the limiter admits a waiter without a free slot.
CanAcquire_NoLimit(i) ==
    \A j \in Items : j < i => pc[j] # "pending"

\* `async with semaphore`: a slot is free, and asyncio wakes waiters in FIFO
\* order (tasks are created, and queue up, in list order).
CanAcquire(i) ==
    /\ semaphore > 0
    /\ \A j \in Items : j < i => pc[j] # "pending"

Acquire(i) ==
    /\ batch_pc = "gather"
    /\ pc[i] = "pending"
    /\ CanAcquire(i)
    /\ semaphore' = semaphore - 1
    /\ pc' = [pc EXCEPT ![i] = "admitted"]
    /\ UNCHANGED <<wf_vars, aux_vars>>
    /\ UNCHANGED <<op, request_ids, max_concurrent, request_to_path, sftp,
                   thread_raised, thread_result, task_entry, fm_ssh_client,
                   fm_sftp_client, conn_open, cached_sftp_credentials,
                   final_results, batch_pc>>

\* The worker thread starts the synchronous call: get_sftp_credentials (cache
\* read, and write on a miss; the credential manager raises RuntimeError when
\* no credentials are given), and for restore_files the database session that
\* resolves the request's directory path (absent -> no request_to_path entry).
ThreadStart(i) ==
    /\ pc[i] = "admitted"
    /\ \/ \* credentials (and, for restore, the path lookup) obtained
          /\ cached_sftp_credentials' = TRUE
          /\ \E resolved \in (IF op = "restore" THEN BOOLEAN ELSE {TRUE}) :
                request_to_path' = [request_to_path EXCEPT ![i] = resolved]
          /\ pc' = [pc EXCEPT ![i] = "connect"]
          /\ UNCHANGED thread_raised
       \/ \* the call raises before it touches the FileManager
          /\ (op = "restore" \/ ~cached_sftp_credentials)
          /\ thread_raised' = [thread_raised EXCEPT ![i] = TRUE]
          /\ pc' = [pc EXCEPT ![i] = "finished"]
          /\ UNCHANGED <<cached_sftp_credentials, request_to_path>>
    /\ UNCHANGED <<wf_vars, aux_vars>>
    /\ UNCHANGED <<op, request_ids, max_concurrent, semaphore, sftp,
                   thread_result, task_entry, fm_ssh_client, fm_sftp_client,
                   conn_open, final_results, batch_pc>>

\* FileManager.create_sftp_connection on the manager's single FileManager:
\* writes self._ssh_client, connects, writes self._sftp_client and returns it;
\* a failed connect leaves the new (unconnected) SSH client in self._ssh_client
\* and raises, and the with block's __exit__ then runs.
Connect(i) ==
    /\ pc[i] = "connect"
    /\ \/ /\ fm_ssh_client' = i
          /\ fm_sftp_client' = i
          /\ conn_open' = conn_open \cup {i}
          /\ sftp' = [sftp EXCEPT ![i] = i]
          /\ pc' = [pc EXCEPT ![i] = "work"]
          /\ UNCHANGED thread_raised
       \/ /\ fm_ssh_client' = i
          /\ thread_raised' = [thread_raised EXCEPT ![i] = TRUE]
          /\ pc' = [pc EXCEPT ![i] = "exit"]
          /\ UNCHANGED <<fm_sftp_client, conn_open, sftp>>
    /\ UNCHANGED <<wf_vars, aux_vars>>
    /\ UNCHANGED <<op, request_ids, max_concurrent, semaphore, request_to_path,
                   thread_result, task_entry, cached_sftp_credentials,
                   final_results, batch_pc>>

\* What the single-item call can produce once connected.
\*  download: FileManager.download_files_for_requests(sftp, [req_id], ...)
\*            returns {req_id: entry} (a download exception is caught and
\*            becomes success False) or raises RuntimeError (downloads dir).
\*  restore:  restore_for_requestids(sftp, request_to_path, ...) returns one
\*            entry per key of request_to_path, none when the path is missing.
WorkResults(i) ==
    IF op = "restore" /\ ~request_to_path[i]
    THEN {EmptyMap}
    ELSE {Put(EmptyMap, request_ids[i], Entry(ok, IF ok THEN "ok" ELSE "failed")) :
             ok \in BOOLEAN}

Work(i) ==
    /\ pc[i] = "work"
    /\ \/ \E r \in WorkResults(i) :
             /\ thread_result' = [thread_result EXCEPT ![i] = r]
             /\ UNCHANGED thread_raised
       \/ /\ op = "download"
          /\ thread_raised' = [thread_raised EXCEPT ![i] = TRUE]
          /\ UNCHANGED thread_result
    /\ pc' = [pc EXCEPT ![i] = "exit"]
    /\ UNCHANGED <<wf_vars, aux_vars>>
    /\ UNCHANGED <<op, request_ids, max_concurrent, semaphore, request_to_path,
                   sftp, task_entry, fm_ssh_client, fm_sftp_client, conn_open,
                   cached_sftp_credentials, final_results, batch_pc>>

\* FileManager.__exit__ -> close_connection: closes whatever handles the
\* shared fields hold now and resets both fields to None.
Exit(i) ==
    /\ pc[i] = "exit"
    /\ conn_open' = conn_open \ {fm_sftp_client, fm_ssh_client}
    /\ fm_sftp_client' = None
    /\ fm_ssh_client' = None
    /\ pc' = [pc EXCEPT ![i] = "finished"]
    /\ UNCHANGED <<wf_vars, aux_vars>>
    /\ UNCHANGED <<op, request_ids, max_concurrent, semaphore, request_to_path,
                   sftp, thread_raised, thread_result, task_entry,
                   cached_sftp_credentials, final_results, batch_pc>>

\* Variant of SingleEntry: the default entry of a missing id reports success.
SingleEntry_DefaultSuccess(result, req_id) ==
    IF req_id \in DOMAIN result
    THEN result[req_id]
    ELSE Entry(TRUE, "Unknown error")

\* The tuple's entry: result[req_id] if req_id in result else the default.
SingleEntry(result, req_id) ==
    IF req_id \in DOMAIN result
    THEN result[req_id]
    ELSE Entry(FALSE, "Unknown error")

\* Variant of Resume: the slot is released only when the operation returned.
Resume_KeepsSlotOnRaise(i) ==
    /\ pc[i] = "finished"
    /\ task_entry' = [task_entry EXCEPT ![i] =
           IF thread_raised[i] THEN @ ELSE SingleEntry(thread_result[i], request_ids[i])]
    /\ semaphore' = IF thread_raised[i] THEN semaphore ELSE semaphore + 1
    /\ pc' = [pc EXCEPT ![i] = "done"]
    /\ UNCHANGED <<wf_vars, aux_vars>>
    /\ UNCHANGED <<op, request_ids, max_concurrent, request_to_path, sftp,
                   thread_raised, thread_result, fm_ssh_client, fm_sftp_client,
                   conn_open, cached_sftp_credentials, final_results, batch_pc>>

\* The awaited executor future resolves: the task returns (req_id, entry) or
\* the exception propagates out of it; `async with` releases the slot.
Resume(i) ==
    /\ pc[i] = "finished"
    /\ task_entry' = [task_entry EXCEPT ![i] =
           IF thread_raised[i] THEN @ ELSE SingleEntry(thread_result[i], request_ids[i])]
    /\ semaphore' = semaphore + 1
    /\ pc' = [pc EXCEPT ![i] = "done"]
    /\ UNCHANGED <<wf_vars, aux_vars>>
    /\ UNCHANGED <<op, request_ids, max_concurrent, request_to_path, sftp,
                   thread_raised, thread_result, fm_ssh_client, fm_sftp_client,
                   conn_open, cached_sftp_credentials, final_results, batch_pc>>

\* The loop over the gathered results, in list order: an exception is printed
\* and skipped, a tuple is stored under its req_id (a later one overwrites).
RECURSIVE ProcessResults(_, _)
ProcessResults(i, acc) ==
    IF i > Len(request_ids) THEN acc
    ELSE IF thread_raised[i] THEN ProcessResults(i + 1, acc)
    ELSE ProcessResults(i + 1, Put(acc, request_ids[i], task_entry[i]))

\* Variant of BatchReturn: the gather gives up waiting (a timeout) and the
\* batch returns while some task has not finished.
BatchReturn_OnTimeout ==
    /\ batch_pc = "gather"
    /\ final_results' = ProcessResults(1, EmptyMap)
    /\ batch_pc' = "returned"
    /\ UNCHANGED <<wf_vars, aux_vars>>
    /\ UNCHANGED <<op, request_ids, max_concurrent, semaphore, pc,
                   request_to_path, sftp, thread_raised, thread_result,
                   task_entry, fm_ssh_client, fm_sftp_client, conn_open,
                   cached_sftp_credentials>>

\* asyncio.gather(*tasks, return_exceptions=True) resolved; the batch returns.
BatchReturn ==
    /\ batch_pc = "gather"
    /\ \A i \in Items : pc[i] = "done"
    /\ final_results' = ProcessResults(1, EmptyMap)
    /\ batch_pc' = "returned"
    /\ UNCHANGED <<wf_vars, aux_vars>>
    /\ UNCHANGED <<op, request_ids, max_concurrent, semaphore, pc,
                   request_to_path, sftp, thread_raised, thread_result,
                   task_entry, fm_ssh_client, fm_sftp_client, conn_open,
                   cached_sftp_credentials>>

WfIdle ==
    /\ workflow = "none"
    /\ restore_files = FALSE
    /\ delete_checksums = FALSE
    /\ wf_pc = "idle"
    /\ calls = <<>>
    /\ requests = <<>>
    /\ completed_steps = 0
    /\ workflow_data = {}
    /\ rerun_args = <<>>
    /\ batch_result = [k \in {} |-> FALSE]
    /\ exception_at = "none"
    /\ wf_raised = FALSE
    /\ wf_result = [success |-> FALSE, data |-> {}, requests_found |-> -1,
                    steps_completed |-> 0, total_steps |-> 0]
    /\ files_downloaded = [k \in {} |-> 0]
    /\ summary = [successful_requests |-> 0, total_requests |-> 0,
                  total_files_downloaded |-> 0]

BatchStart ==
    /\ op \in {"download", "restore"}
    /\ request_ids \in SeqsUpTo(RequestIdUniverse, MaxIds)
    /\ max_concurrent \in 1..MaxConcurrent
    /\ semaphore = max_concurrent
    /\ pc = [i \in DOMAIN request_ids |-> "pending"]
    /\ request_to_path = [i \in DOMAIN request_ids |-> FALSE]
    /\ sftp = [i \in DOMAIN request_ids |-> None]
    /\ thread_raised = [i \in DOMAIN request_ids |-> FALSE]
    /\ thread_result = [i \in DOMAIN request_ids |-> EmptyMap]
    /\ task_entry = [i \in DOMAIN request_ids |-> Entry(FALSE, "")]
    /\ fm_ssh_client = None
    /\ fm_sftp_client = None
    /\ conn_open = {}
    /\ cached_sftp_credentials \in BOOLEAN
    /\ final_results = EmptyMap
    /\ batch_pc = "gather"

InitBatch == BatchStart /\ WfIdle /\ AuxIdle

NextBatch ==
    \/ \E i \in Items : Acquire(i)
    \/ \E i \in Items : ThreadStart(i)
    \/ \E i \in Items : Connect(i)
    \/ \E i \in Items : Work(i)
    \/ \E i \in Items : Exit(i)
    \/ \E i \in Items : Resume(i)
    \/ BatchReturn

SpecBatch == InitBatch /\ [][NextBatch]_vars

\* The batch under the scheduling the code runs on: the event loop runs every
\* ready coroutine and every started executor call ends (it returns or
\* raises), so while some step of the batch is possible one is taken.
SpecBatchFair == SpecBatch /\ WF_vars(NextBatch)

\* ====================================================================
\* CommonWorkflows
\* ====================================================================

Range(f) == {f[i] : i \in DOMAIN f}

\* Lists of distinct request ids: find_requests returns the latest request of
\* each (district, type) pair, so no id twice.
RequestLists == {rs \in SeqsUpTo(RequestIdUniverse, MaxFound) :
                    \A i, j \in DOMAIN rs : rs[i] = rs[j] => i = j}

\* A result dict of a batch call on `ids`: entries for some of the ids, each
\* with a success flag.
BatchResults(ids) == UNION {[ks -> BOOLEAN] : ks \in SUBSET Range(ids)}

\* Variants of TotalSteps: the optional restore step is not counted / always counted.
TotalSteps_AlwaysTwo(restore) == 2

TotalSteps_AlwaysThree(restore) == 3

\* total_steps of district_refresh_workflow.
TotalSteps(restore) == IF restore THEN 3 ELSE 2

\* Variant of NoRequests: the empty result is not short-circuited.
NoRequests_Never(rs) == FALSE

\* `if not requests:`
NoRequests(rs) == Len(rs) = 0

\* Variant of RestoreStepEnabled: step 2 runs whatever restore_files is.
RestoreStep_Always == TRUE

\* `if restore_files:` guarding step 2 of district_refresh_workflow.
RestoreStepEnabled == restore_files

WorkflowResult(ok, data, found, steps, total) ==
    [success |-> ok, data |-> data, requests_found |-> found,
     steps_completed |-> steps, total_steps |-> total]

\* The value of data["requests_found"] (-1: the key is absent).
FoundIn(data) == IF "requests_found" \in data THEN Len(requests) ELSE -1

\* Variant of RefreshExcept: the exception leaves the workflow (no handler).
RefreshExcept_Reraise(opname) ==
    /\ exception_at' = opname
    /\ wf_raised' = TRUE
    /\ wf_pc' = "done"
    /\ UNCHANGED wf_result

\* except Exception as e: of district_refresh_workflow.
RefreshExcept(opname) ==
    /\ exception_at' = opname
    /\ wf_result' = WorkflowResult(FALSE, workflow_data, FoundIn(workflow_data),
                                   completed_steps, TotalSteps(restore_files))
    /\ wf_raised' = FALSE
    /\ wf_pc' = "done"

\* except Exception as e: of bulk_file_download_workflow.
BulkExcept(opname) ==
    /\ exception_at' = opname
    /\ wf_result' = WorkflowResult(FALSE, workflow_data, FoundIn(workflow_data), 1, 2)
    /\ wf_raised' = FALSE
    /\ wf_pc' = "done"

\* except Exception as e: of integration_monitoring_workflow.
MonitorExcept(opname) ==
    /\ exception_at' = opname
    /\ wf_result' = WorkflowResult(FALSE, workflow_data, FoundIn(workflow_data), 0, 1)
    /\ wf_raised' = FALSE
    /\ wf_pc' = "done"

\* Step 1 of district_refresh_workflow: find_requests raises, returns no
\* request, or returns some.
RefreshFind ==
    /\ workflow = "district_refresh"
    /\ wf_pc = "find"
    /\ calls' = Append(calls, "find_requests")
    /\ \/ /\ RefreshExcept("find_requests")
          /\ UNCHANGED <<requests, completed_steps, workflow_data>>
       \/ \E rs \in RequestLists :
             /\ requests' = rs
             /\ IF NoRequests(rs)
                THEN /\ wf_result' = WorkflowResult(FALSE, {"districts", "requests_found"},
                                                    0, 0, TotalSteps(restore_files))
                     /\ wf_pc' = "done"
                     /\ UNCHANGED <<completed_steps, workflow_data>>
                ELSE /\ workflow_data' = {"requests_found", "request_ids"}
                     /\ completed_steps' = completed_steps + 1
                     /\ wf_pc' = IF RestoreStepEnabled THEN "restore" ELSE "rerun"
                     /\ UNCHANGED wf_result
             /\ UNCHANGED <<exception_at, wf_raised>>
    /\ UNCHANGED <<workflow, restore_files, delete_checksums, rerun_args, batch_result>>
    /\ UNCHANGED <<files_downloaded, summary>>
    /\ UNCHANGED <<batch_vars, aux_vars>>

\* Step 2: `await self.request_manager.restore_files_batch(request_ids, ...)`
\* is invoked; the workflow is suspended until the batch call resolves.
RefreshRestoreCall ==
    /\ workflow = "district_refresh"
    /\ wf_pc = "restore"
    /\ calls' = Append(calls, "restore_files_batch")
    /\ wf_pc' = "restoring"
    /\ UNCHANGED <<workflow, restore_files, delete_checksums, requests,
                   completed_steps, workflow_data, rerun_args, batch_result,
                   exception_at, wf_raised, wf_result>>
    /\ UNCHANGED <<files_downloaded, summary>>
    /\ UNCHANGED <<batch_vars, aux_vars>>

\* The awaited restore_files_batch raises or returns its result dict.
RefreshRestoreReturn ==
    /\ workflow = "district_refresh"
    /\ wf_pc = "restoring"
    /\ \/ /\ RefreshExcept("restore_files_batch")
          /\ UNCHANGED <<completed_steps, workflow_data, batch_result>>
       \/ \E r \in BatchResults(requests) :
             /\ batch_result' = r
             /\ workflow_data' = workflow_data \cup {"restore_results"}
             /\ completed_steps' = completed_steps + 1
             /\ wf_pc' = "rerun"
             /\ UNCHANGED <<exception_at, wf_raised, wf_result>>
    /\ UNCHANGED <<workflow, restore_files, delete_checksums, calls, requests, rerun_args>>
    /\ UNCHANGED <<files_downloaded, summary>>
    /\ UNCHANGED <<batch_vars, aux_vars>>

\* Variant of RefreshRerun: only the requests whose files were restored are
\* rerun.
RefreshRerun_OnlyRestored ==
    /\ workflow = "district_refresh"
    /\ wf_pc = "rerun"
    /\ calls' = Append(calls, "rerun_requests")
    /\ rerun_args' = IF restore_files
                      THEN SelectSeq(requests,
                                     LAMBDA id : /\ id \in DOMAIN batch_result
                                                 /\ batch_result[id])
                      ELSE requests
    /\ \/ /\ RefreshExcept("rerun_requests")
          /\ UNCHANGED <<completed_steps, workflow_data>>
       \/ /\ workflow_data' = workflow_data \cup {"rerun_result"}
          /\ completed_steps' = completed_steps + 1
          /\ wf_result' = WorkflowResult(TRUE, workflow_data', FoundIn(workflow_data'),
                                         completed_steps', TotalSteps(restore_files))
          /\ wf_pc' = "done"
          /\ UNCHANGED <<exception_at, wf_raised>>
    /\ UNCHANGED <<workflow, restore_files, delete_checksums, requests, batch_result>>
    /\ UNCHANGED <<files_downloaded, summary>>
    /\ UNCHANGED <<batch_vars, aux_vars>>

\* Step 3: rerun_requests(request_ids, delete_checksums=...) raises or returns.
RefreshRerun ==
    /\ workflow = "district_refresh"
    /\ wf_pc = "rerun"
    /\ calls' = Append(calls, "rerun_requests")
    /\ rerun_args' = requests
    /\ \/ /\ RefreshExcept("rerun_requests")
          /\ UNCHANGED <<completed_steps, workflow_data>>
       \/ /\ workflow_data' = workflow_data \cup {"rerun_result"}
          /\ completed_steps' = completed_steps + 1
          /\ wf_result' = WorkflowResult(TRUE, workflow_data', FoundIn(workflow_data'),
                                         completed_steps', TotalSteps(restore_files))
          /\ wf_pc' = "done"
          /\ UNCHANGED <<exception_at, wf_raised>>
    /\ UNCHANGED <<workflow, restore_files, delete_checksums, requests, batch_result>>
    /\ UNCHANGED <<files_downloaded, summary>>
    /\ UNCHANGED <<batch_vars, aux_vars>>

\* Variant of SuccessfulDownloads: every download entry counts as successful.
SuccessfulDownloads_CountAll(r) == Cardinality(DOMAIN r)

\* sum(1 for r in download_results.values() if r.get("success"))
SuccessfulDownloads(r) == Cardinality({k \in DOMAIN r : r[k]})

\* sum(r.get("files_downloaded", 0) for r in download_results.values())
RECURSIVE SumValues(_)
SumValues(f) ==
    IF DOMAIN f = {} THEN 0
    ELSE LET k == CHOOSE x \in DOMAIN f : TRUE
         IN  f[k] + SumValues([x \in (DOMAIN f) \ {k} |-> f[x]])

\* Step 1 of bulk_file_download_workflow.
BulkFind ==
    /\ workflow = "bulk_download"
    /\ wf_pc = "find"
    /\ calls' = Append(calls, "find_requests")
    /\ \/ /\ BulkExcept("find_requests")
          /\ UNCHANGED <<requests, workflow_data>>
       \/ \E rs \in RequestLists :
             /\ requests' = rs
             /\ IF NoRequests(rs)
                THEN /\ wf_result' = WorkflowResult(FALSE, {"type_names", "district_ids"},
                                                    -1, 0, 2)
                     /\ wf_pc' = "done"
                     /\ UNCHANGED workflow_data
                ELSE /\ workflow_data' = {"requests_found", "request_details"}
                     /\ wf_pc' = "download"
                     /\ UNCHANGED wf_result
             /\ UNCHANGED <<exception_at, wf_raised>>
    /\ UNCHANGED <<workflow, restore_files, delete_checksums, completed_steps,
                   rerun_args, batch_result>>
    /\ UNCHANGED <<files_downloaded, summary>>
    /\ UNCHANGED <<batch_vars, aux_vars>>

\* Step 2: `await self.request_manager.download_files_batch(request_ids, ...)`.
BulkDownloadCall ==
    /\ workflow = "bulk_download"
    /\ wf_pc = "download"
    /\ calls' = Append(calls, "download_files_batch")
    /\ wf_pc' = "downloading"
    /\ UNCHANGED <<workflow, restore_files, delete_checksums, requests,
                   completed_steps, workflow_data, rerun_args, batch_result,
                   exception_at, wf_raised, wf_result>>
    /\ UNCHANGED <<files_downloaded, summary>>
    /\ UNCHANGED <<batch_vars, aux_vars>>

\* The awaited download_files_batch raises or returns; the summary is built
\* and the workflow returns success with steps 2 of 2.
BulkDownloadReturn ==
    /\ workflow = "bulk_download"
    /\ wf_pc = "downloading"
    /\ \/ /\ BulkExcept("download_files_batch")
          /\ UNCHANGED <<workflow_data, batch_result, files_downloaded, summary>>
       \/ \E r \in BatchResults(requests) :
          \E fd \in [DOMAIN r -> 0..MaxFiles] :
             /\ batch_result' = r
             /\ files_downloaded' = fd
             /\ workflow_data' = workflow_data \cup {"download_results", "summary"}
             /\ summary' = [successful_requests |-> SuccessfulDownloads(r),
                            total_requests |-> Len(requests),
                            total_files_downloaded |-> SumValues(fd)]
             /\ wf_result' = WorkflowResult(TRUE, workflow_data', FoundIn(workflow_data'), 2, 2)
             /\ wf_pc' = "done"
             /\ UNCHANGED <<exception_at, wf_raised>>
    /\ UNCHANGED <<workflow, restore_files, delete_checksums, calls, requests,
                   completed_steps, rerun_args>>
    /\ UNCHANGED <<batch_vars, aux_vars>>

\* integration_monitoring_workflow: find_requests raises, returns nothing
\* (success, steps 1 of 1) or returns requests that are analysed.
MonitorFind ==
    /\ workflow = "monitoring"
    /\ wf_pc = "find"
    /\ calls' = Append(calls, "find_requests")
    /\ \/ /\ MonitorExcept("find_requests")
          /\ UNCHANGED <<requests, workflow_data>>
       \/ \E rs \in RequestLists :
             /\ requests' = rs
             /\ IF NoRequests(rs)
                THEN /\ wf_result' = WorkflowResult(TRUE, {"integration_types", "requests_found"},
                                                    0, 1, 1)
                     /\ UNCHANGED workflow_data
                ELSE /\ workflow_data' = {"total_requests", "success_rate", "analysis", "summary"}
                     /\ wf_result' = WorkflowResult(TRUE, workflow_data', -1, 1, 1)
             /\ wf_pc' = "done"
             /\ UNCHANGED <<exception_at, wf_raised>>
    /\ UNCHANGED <<workflow, restore_files, delete_checksums, completed_steps,
                   rerun_args, batch_result>>
    /\ UNCHANGED <<files_downloaded, summary>>
    /\ UNCHANGED <<batch_vars, aux_vars>>

BatchIdle ==
    /\ op = "none"
    /\ request_ids = <<>>
    /\ max_concurrent = 0
    /\ semaphore = 0
    /\ pc = <<>>
    /\ request_to_path = <<>>
    /\ sftp = <<>>
    /\ thread_raised = <<>>
    /\ thread_result = <<>>
    /\ task_entry = <<>>
    /\ fm_ssh_client = None
    /\ fm_sftp_client = None
    /\ conn_open = {}
    /\ cached_sftp_credentials = FALSE
    /\ final_results = EmptyMap
    /\ batch_pc = "idle"

WorkflowStart ==
    /\ workflow \in {"district_refresh", "bulk_download", "monitoring"}
    /\ restore_files \in (IF workflow = "district_refresh" THEN BOOLEAN ELSE {FALSE})
    /\ delete_checksums \in (IF workflow = "district_refresh" THEN BOOLEAN ELSE {FALSE})
    /\ wf_pc = "find"
    /\ calls = <<>>
    /\ requests = <<>>
    /\ completed_steps = 0
    /\ workflow_data = {}
    /\ rerun_args = <<>>
    /\ batch_result = [k \in {} |-> FALSE]
    /\ exception_at = "none"
    /\ wf_raised = FALSE
    /\ wf_result = WorkflowResult(FALSE, {}, -1, 0, 0)
    /\ files_downloaded = [k \in {} |-> 0]
    /\ summary = [successful_requests |-> 0, total_requests |-> 0,
                  total_files_downloaded |-> 0]

InitWorkflow == BatchIdle /\ WorkflowStart /\ AuxIdle

NextWorkflow ==
    \/ RefreshFind
    \/ RefreshRestoreCall
    \/ RefreshRestoreReturn
    \/ RefreshRerun
    \/ BulkFind
    \/ BulkDownloadCall
    \/ BulkDownloadReturn
    \/ MonitorFind

SpecWorkflow == InitWorkflow /\ [][NextWorkflow]_vars

\* ====================================================================
\* FileManager.db_windows_path_to_remote_sftp_path
\* ====================================================================

\* A string is the sequence of its characters (one-character strings).
\* Inputs are built from these pieces: a letter, the drive colon, both
\* separators, a blank, and the two directory names of the markers.
PathTokens ==
    { <<"C">>, <<":">>, <<"\\">>, <<"/">>, <<" ">>,
      <<"D", "i", "s", "t", "r", "i", "c", "t", "s">>,
      <<"F", "T", "P", "r", "o", "o", "t">> }

RECURSIVE Flatten(_)
Flatten(ts) == IF ts = <<>> THEN <<>> ELSE Head(ts) \o Flatten(Tail(ts))

PathInputs == {Flatten(ts) : ts \in SeqsUpTo(PathTokens, MaxPathTokens)}

MinOf(S) == CHOOSE x \in S : \A y \in S : x <= y

MaxOf(S) == CHOOSE x \in S : \A y \in S : x >= y

\* str.strip(): leading and trailing whitespace removed.
Strip(s) ==
    LET idx == {i \in 1..Len(s) : s[i] # " "}
    IN  IF idx = {} THEN <<>> ELSE SubSeq(s, MinOf(idx), MaxOf(idx))

\* p.replace("\\", "/")
ReplaceBackslash(s) == [i \in 1..Len(s) |-> IF s[i] = "\\" THEN "/" ELSE s[i]]

\* if len(p) >= 2 and p[1] == ":": p = p[2:]
DropDrive(p) == IF Len(p) >= 2 /\ p[2] = ":" THEN SubSeq(p, 3, Len(p)) ELSE p

\* p.lstrip("/")
LStripSlash(p) ==
    LET idx == {i \in 1..Len(p) : p[i] # "/"}
    IN  IF idx = {} THEN <<>> ELSE SubSeq(p, MinOf(idx), Len(p))

LowerChar(c) ==
    CASE c = "C" -> "c" [] c = "D" -> "d" [] c = "F" -> "f"
      [] c = "T" -> "t" [] c = "P" -> "p" [] c = "S" -> "s"
      [] c = "A" -> "a" [] OTHER -> c

\* p.lower()
Lower(p) == [i \in 1..Len(p) |-> LowerChar(p[i])]

\* s.find(m): the 0-based index of the first occurrence of m in s, or -1.
Find(s, m) ==
    LET hits == {i \in 1..(Len(s) - Len(m) + 1) : SubSeq(s, i, i + Len(m) - 1) = m}
    IN  IF hits = {} THEN -1 ELSE MinOf(hits) - 1

DistrictsMarker == <<"d", "i", "s", "t", "r", "i", "c", "t", "s", "/">>

FtprootPrefix == <<"f", "t", "p", "r", "o", "o", "t", "/">>

\* p.replace("//", "/"): one pass, left to right, non-overlapping.
RECURSIVE ReplaceDoubleSlash(_)
ReplaceDoubleSlash(p) ==
    IF Len(p) < 2 THEN p
    ELSE IF p[1] = "/" /\ p[2] = "/"
         THEN <<"/">> \o ReplaceDoubleSlash(SubSeq(p, 3, Len(p)))
         ELSE <<p[1]>> \o ReplaceDoubleSlash(Tail(p))

\* while "//" in p: p = p.replace("//", "/")
RECURSIVE CollapseSlashes(_)
CollapseSlashes(p) ==
    IF Find(p, <<"/", "/">>) = -1 THEN p
    ELSE CollapseSlashes(ReplaceDoubleSlash(p))

db_windows_path_to_remote_sftp_path(dbp) ==
    LET p1 == ReplaceBackslash(Strip(dbp))
        p2 == LStripSlash(DropDrive(p1))
        lower_p == Lower(p2)
        idx == Find(lower_p, DistrictsMarker)
        idx2 == Find(lower_p, FtprootPrefix \o DistrictsMarker)
        p3 == IF idx # -1 THEN SubSeq(p2, idx + 1, Len(p2))
              ELSE IF idx2 # -1
                   THEN SubSeq(p2, idx2 + Len(FtprootPrefix) + 1, Len(p2))
                   ELSE p2
        p4 == CollapseSlashes(p3)
    IN  IF p4 # <<>> THEN <<"/">> \o p4 ELSE <<"/">>

\* A caller resolves a path.
Resolve ==
    /\ path_pc = "start"
    /\ remote_path' = db_windows_path_to_remote_sftp_path(db_path)
    /\ path_pc' = "resolved"
    /\ UNCHANGED <<db_path, remote_path2>>
    /\ UNCHANGED <<batch_vars, wf_vars, mon_vars, rerun_vars, ext_vars>>

\* The caller resolves the path it got back.
ResolveAgain ==
    /\ path_pc = "resolved"
    /\ remote_path2' = db_windows_path_to_remote_sftp_path(remote_path)
    /\ path_pc' = "again"
    /\ UNCHANGED <<db_path, remote_path>>
    /\ UNCHANGED <<batch_vars, wf_vars, mon_vars, rerun_vars, ext_vars>>

PathStart ==
    /\ db_path \in PathInputs
    /\ remote_path = <<>>
    /\ remote_path2 = <<>>
    /\ path_pc = "start"

InitPath == BatchIdle /\ WfIdle /\ MonitorIdle /\ RerunIdle /\ PathStart /\ ExtIdle

NextPath == Resolve \/ ResolveAgain

SpecPath == InitPath /\ [][NextPath]_vars

\* ====================================================================
\* DatabaseManager.find_latest_requests and
\* CommonWorkflows.integration_monitoring_workflow over a Request table
\* ====================================================================

\* DataRequestType rows: DataRequestTypeID -> Name.
DataRequestTypes == <<
    <<"S", "A", "T">>,
    <<"A", "C", "T">> >>

\* Type-name prefixes a caller passes.
SAT == <<"S", "A", "T">>

PSAT == <<"P", "S", "A", "T">>

Districts == {1, 2}

\* Request.Status values: 2 pending, 4 failed, 5 successful.
Statuses == {2, 4, 5}

\* Age of a request in days (now - RequestTime).
Ages == {1, 10}

DaysBackValues == {7, 14}

\* A Request row; its RequestID is its position in request_table.
RequestRows ==
    [DistrictID : Districts, DataRequestTypeID : DOMAIN DataRequestTypes,
     Status : Statuses, Age : Ages]

\* DataRequestType.Name.ilike(f"{p}%")
ILikePrefix(name, p) ==
    Len(name) >= Len(p) /\ Lower(SubSeq(name, 1, Len(p))) = Lower(p)

\* effective_type_ids: type_ids plus the ids whose name matches a prefix.
EffectiveTypeIds(type_ids, type_name_prefixes) ==
    type_ids \cup {t \in DOMAIN DataRequestTypes :
                      \E p \in type_name_prefixes : ILikePrefix(DataRequestTypes[t], p)}

\* Variant of LatestIds: the newest request of each pair is taken whatever its
\* status, and kept when its status is in statuses.
LatestIds_MaxThenStatus(table, effective_type_ids, district_ids, statuses) ==
    LET kept == {i \in DOMAIN table :
                    /\ district_ids # {} => table[i].DistrictID \in district_ids
                    /\ effective_type_ids # {} =>
                          table[i].DataRequestTypeID \in effective_type_ids}
    IN  {i \in kept :
            /\ table[i].Status \in statuses
            /\ \A j \in kept :
                  (/\ table[j].DistrictID = table[i].DistrictID
                   /\ table[j].DataRequestTypeID = table[i].DataRequestTypeID) => j <= i}

\* latest_query: MAX(RequestID) per (DistrictID, DataRequestTypeID) among the
\* rows with a status in statuses; the district and type filters are applied
\* only when their list is non-empty.
LatestIds(table, effective_type_ids, district_ids, statuses) ==
    LET kept == {i \in DOMAIN table :
                    /\ table[i].Status \in statuses
                    /\ district_ids # {} => table[i].DistrictID \in district_ids
                    /\ effective_type_ids # {} =>
                          table[i].DataRequestTypeID \in effective_type_ids}
    IN  {i \in kept : \A j \in kept :
            (/\ table[j].DistrictID = table[i].DistrictID
             /\ table[j].DataRequestTypeID = table[i].DataRequestTypeID) => j <= i}

\* RequestRow of request i as the query returns it.
RequestRow(table, i) ==
    [RequestID |-> i, DistrictID |-> table[i].DistrictID,
     DataRequestTypeName |-> DataRequestTypes[table[i].DataRequestTypeID],
     Status |-> table[i].Status, Age |-> table[i].Age]

\* order_by(Request.RequestTime.desc()): newest first, ties in any order.
OrderedByTimeDesc(table, ids) ==
    {s \in [1..Cardinality(ids) -> ids] :
        /\ \A a, b \in DOMAIN s : a # b => s[a] # s[b]
        /\ \A a, b \in DOMAIN s : a < b => table[s[a]].Age <= table[s[b]].Age}

\* The lists find_latest_requests can return (since_date = None: no filter).
FindLatestRequests(table, type_ids, type_name_prefixes, district_ids, statuses, since_date) ==
    LET latest == LatestIds(table, EffectiveTypeIds(type_ids, type_name_prefixes),
                            district_ids, statuses)
        rows == IF since_date # None
                THEN {i \in latest : table[i].Age <= since_date} ELSE latest
    IN  {[k \in DOMAIN s |-> RequestRow(table, s[k])] : s \in OrderedByTimeDesc(table, rows)}

\* Variant of MonitorStatuses: pending requests are monitored too.
MonitorStatuses_WithPending == {2, 4, 5}

\* statuses=[4, 5]  # Failed and successful
MonitorStatuses == {4, 5}

\* One of the three `if request.Status == 5: ... elif request.Status == 4:`.
Count(cnt, status) ==
    IF status = 5 THEN [cnt EXCEPT !.success = @ + 1]
    ELSE IF status = 4 THEN [cnt EXCEPT !.failed = @ + 1]
    ELSE cnt

\* `if key not in analysis[...]: analysis[...][key] = {"success": 0, "failed": 0}`
WithKey(m, k) == IF k \in DOMAIN m THEN m ELSE Put(m, k, ZeroCount)

\* The body of `for request in all_requests`.
AnalyseRequest(acc, request) ==
    LET failed == request.Status = 4
        by_type == WithKey(acc.by_type, request.DataRequestTypeName)
        by_district == WithKey(acc.by_district, request.DistrictID)
    IN  [by_status |-> Count(acc.by_status, request.Status),
         by_type |-> [by_type EXCEPT ![request.DataRequestTypeName] =
                         Count(@, request.Status)],
         by_district |-> [by_district EXCEPT ![request.DistrictID] =
                             Count(@, request.Status)],
         failed_requests |-> IF failed THEN Append(acc.failed_requests, request.RequestID)
                             ELSE acc.failed_requests,
         districts_with_failures |->
             IF failed THEN acc.districts_with_failures \cup {request.DistrictID}
             ELSE acc.districts_with_failures]

RECURSIVE Analyse(_, _, _)
Analyse(rs, i, acc) ==
    IF i > Len(rs) THEN acc ELSE Analyse(rs, i + 1, AnalyseRequest(acc, rs[i]))

\* workflow_data: total_requests and the summary's district counts.
MonitorData(rs, a) ==
    [total_requests |-> Len(rs),
     healthy_districts |->
         Cardinality({d \in DOMAIN a.by_district : a.by_district[d].failed = 0}),
     districts_with_issues |-> Cardinality(a.districts_with_failures)]

\* integration_monitoring_workflow(integration_types, days_back): days_back is
\* printed and not passed on; find_requests(type_names, statuses=[4, 5])
\* raises (-> failed result), finds nothing, or its result is analysed.
IntegrationMonitoring ==
    /\ mon_pc = "start"
    /\ \/ /\ mon_pc' = "failed"
          /\ UNCHANGED <<all_requests, analysis, monitor_data>>
       \/ \E rs \in FindLatestRequests(request_table, {}, integration_types, {},
                                       MonitorStatuses, None) :
             /\ all_requests' = rs
             /\ IF rs = <<>>
                THEN /\ mon_pc' = "empty"
                     /\ UNCHANGED <<analysis, monitor_data>>
                ELSE /\ analysis' = Analyse(rs, 1, EmptyAnalysis)
                     /\ monitor_data' = MonitorData(rs, analysis')
                     /\ mon_pc' = "analysed"
    /\ UNCHANGED <<request_table, integration_types, days_back>>
    /\ UNCHANGED <<batch_vars, wf_vars, path_vars, rerun_vars, ext_vars>>

MonitorStart ==
    /\ request_table \in SeqsUpTo(RequestRows, MaxRequests)
    /\ integration_types \in {{SAT}, {SAT, PSAT}, {PSAT}}
    /\ days_back \in DaysBackValues
    /\ all_requests = <<>>
    /\ analysis = EmptyAnalysis
    /\ monitor_data = [total_requests |-> 0, healthy_districts |-> 0,
                       districts_with_issues |-> 0]
    /\ mon_pc = "start"

InitMonitor == BatchIdle /\ WfIdle /\ PathIdle /\ RerunIdle /\ MonitorStart /\ ExtIdle

NextMonitor == IntegrationMonitoring

SpecMonitor == InitMonitor /\ [][NextMonitor]_vars

\* ====================================================================
\* RequestManager.rerun_requests over the Request, xpsDistrictUpload,
\* UploadFileIntegrationChecksum and xpsQueue tables
\* ====================================================================

\* xpsDistrictUpload rows by xpsDistrictUploadID; Eligible stands for
\* UploadTypeID = 5, ClassNameType = 2 and Run = 1.
XpsDistrictUploads == <<
    [DistrictID |-> 1, DirectoryPath |-> "A", Eligible |-> TRUE],
    [DistrictID |-> 1, DirectoryPath |-> "B", Eligible |-> TRUE],
    [DistrictID |-> 2, DirectoryPath |-> "B", Eligible |-> TRUE],
    [DistrictID |-> 2, DirectoryPath |-> "A", Eligible |-> FALSE] >>

\* Request rows by RequestID (ImportedFileName "" stands for NULL or empty);
\* district 3 has no xpsDistrictUpload row.
RequestTable ==
    << [DistrictID |-> 1, ImportedFileName |-> "A"],
       [DistrictID |-> 1, ImportedFileName |-> "B"],
       [DistrictID |-> 2, ImportedFileName |-> ""],
       [DistrictID |-> 3, ImportedFileName |-> ""] >>

\* The ids a caller passes: the four rows and one id without a row.
RerunIdUniverse == DOMAIN RequestTable \cup {9}

ChecksumKeys == {"k1", "k2"}

\* xpsQueue rows before the call: processed (status 3, result 1), any uploads.
QueueRow(upload) ==
    [xpsDistrictUploadID |-> upload, xpsQueueStatusID |-> 3, xpsQueueResultID |-> 1]

\* get_directory_path_for_request: ImportedFileName, else the DirectoryPath of
\* the .first() xpsDistrictUpload row of the district (no ORDER BY: any of
\* them), else None.
DirectoryPathsForRequest(r) ==
    IF r.ImportedFileName # "" THEN {r.ImportedFileName}
    ELSE {XpsDistrictUploads[u].DirectoryPath :
             u \in {v \in DOMAIN XpsDistrictUploads :
                       XpsDistrictUploads[v].DistrictID = r.DistrictID}}

\* One pass of the loop body for req_id: the <<DistrictID, db_path>> pairs it
\* can append; none when the Request row or the path is missing (`continue`).
ResolveRequest(req_id) ==
    IF req_id \notin DOMAIN db_requests THEN {}
    ELSE {<<db_requests[req_id].DistrictID, p>> :
             p \in DirectoryPathsForRequest(db_requests[req_id])}

\* `for req_id in request_ids`: the lists of appended pairs the loop can build.
RECURSIVE ResolveRequests(_)
ResolveRequests(ids) ==
    IF ids = <<>> THEN {<<>>}
    ELSE LET first == ResolveRequest(Head(ids))
             rest == ResolveRequests(Tail(ids))
         IN  IF first = {} THEN rest
             ELSE {<<h>> \o r : h \in first, r \in rest}

\* make_in_clause over an empty list renders `col IN ()`, which the server
\* rejects: session.execute raises.
EmptyInClause(values) == values = <<>>

\* The xpsDistrictUpload rows the WHERE clauses select: the three fixed
\* clauses, DistrictID IN district_ids, and DirectoryPath IN directory_paths
\* when that list is non-empty.
SelectedUploads(district_ids, directory_paths) ==
    {u \in DOMAIN XpsDistrictUploads :
        /\ XpsDistrictUploads[u].Eligible
        /\ XpsDistrictUploads[u].DistrictID \in Range(district_ids)
        /\ directory_paths # <<>> =>
              XpsDistrictUploads[u].DirectoryPath \in Range(directory_paths)}

\* clear_checksums: the checksum rows the DELETE removes.
ChecksumsToDelete(district_ids, directory_paths, keys) ==
    {c \in checksums :
        /\ c[1] \in SelectedUploads(district_ids, directory_paths)
        /\ keys # {} => c[2] \in keys}

\* bump_latest_queue: SELECT du.DistrictID, MAX(q2.xpsQueueID) ... GROUP BY
\* du.DistrictID: the ids of the rows the UPDATE sets.
LatestQueueIds(district_ids, directory_paths) ==
    LET sel == {q \in DOMAIN xps_queue :
                   xps_queue[q].xpsDistrictUploadID
                       \in SelectedUploads(district_ids, directory_paths)}
        DistrictOf(q) == XpsDistrictUploads[xps_queue[q].xpsDistrictUploadID].DistrictID
    IN  {q \in sel : \A q2 \in sel : DistrictOf(q2) = DistrictOf(q) => q2 <= q}

\* rerun_requests up to the end of the loop: credentials and session (either
\* can fail), then districts and dir_paths of the ids that resolve.
RerunResolve ==
    /\ rerun_pc = "start"
    /\ \/ /\ db_failed' = TRUE
          /\ rerun_pc' = "raised"
          /\ UNCHANGED <<districts, dir_paths>>
       \/ \E pairs \in ResolveRequests(rr_request_ids) :
             /\ districts' = [i \in DOMAIN pairs |-> pairs[i][1]]
             /\ dir_paths' = [i \in DOMAIN pairs |-> pairs[i][2]]
             /\ rerun_pc' = IF rr_delete_checksums THEN "clear" ELSE "bump"
             /\ UNCHANGED db_failed
    /\ last_op' = "rerun_requests"
    /\ UNCHANGED <<db_requests, checksums, xps_queue, rr_request_ids,
                   rr_delete_checksums, checksum_keys, deleted, updated,
                   bump_calls>>
    /\ UNCHANGED <<batch_vars, wf_vars, path_vars, mon_vars, ext_vars>>

\* `if delete_checksums: deleted = clear_checksums(...)`: the DELETE is
\* executed and committed, or execute raises (empty IN list, server failure).
RerunClearChecksums ==
    /\ rerun_pc = "clear"
    /\ \/ /\ EmptyInClause(districts)
          /\ rerun_pc' = "raised"
          /\ UNCHANGED <<checksums, deleted, db_failed>>
       \/ /\ ~EmptyInClause(districts)
          /\ db_failed' = TRUE
          /\ rerun_pc' = "raised"
          /\ UNCHANGED <<checksums, deleted>>
       \/ /\ ~EmptyInClause(districts)
          /\ LET gone == ChecksumsToDelete(districts, dir_paths, checksum_keys)
             IN  /\ checksums' = checksums \ gone
                 /\ deleted' = Cardinality(gone)
          /\ rerun_pc' = "bump"
          /\ UNCHANGED db_failed
    /\ UNCHANGED <<db_requests, xps_queue, rr_request_ids, rr_delete_checksums,
                   checksum_keys, districts, dir_paths, updated, bump_calls,
                   last_op>>
    /\ UNCHANGED <<batch_vars, wf_vars, path_vars, mon_vars, ext_vars>>

\* A variant in which the deletion and the bump are one transaction: a failed
\* bump rolls the checksum deletion back.
RerunBumpQueue_RollsBack ==
    /\ rerun_pc = "bump"
    /\ \/ /\ EmptyInClause(districts)
          /\ rerun_pc' = "raised"
          /\ checksums' = (DOMAIN XpsDistrictUploads) \X ChecksumKeys
          /\ UNCHANGED <<xps_queue, updated, db_failed>>
       \/ /\ ~EmptyInClause(districts)
          /\ db_failed' = TRUE
          /\ rerun_pc' = "raised"
          /\ checksums' = (DOMAIN XpsDistrictUploads) \X ChecksumKeys
          /\ UNCHANGED <<xps_queue, updated>>
       \/ /\ ~EmptyInClause(districts)
          /\ LET latest == LatestQueueIds(districts, dir_paths)
             IN  /\ xps_queue' = [q \in DOMAIN xps_queue |->
                        IF q \in latest
                        THEN [xps_queue[q] EXCEPT !.xpsQueueStatusID = 2,
                                                  !.xpsQueueResultID = 5]
                        ELSE xps_queue[q]]
                 /\ updated' = Cardinality(latest)
          /\ rerun_pc' = "returned"
          /\ UNCHANGED <<db_failed, checksums>>
    /\ bump_calls' = bump_calls + 1
    /\ UNCHANGED <<db_requests, rr_request_ids, rr_delete_checksums,
                   checksum_keys, districts, dir_paths, deleted, last_op>>
    /\ UNCHANGED <<batch_vars, wf_vars, path_vars, mon_vars, ext_vars>>

\* `updated = bump_latest_queue(...)` and the return: the UPDATE is executed
\* and committed, or execute raises (empty IN list, server failure).
RerunBumpQueue ==
    /\ rerun_pc = "bump"
    /\ \/ /\ EmptyInClause(districts)
          /\ rerun_pc' = "raised"
          /\ UNCHANGED <<xps_queue, updated, db_failed>>
       \/ /\ ~EmptyInClause(districts)
          /\ db_failed' = TRUE
          /\ rerun_pc' = "raised"
          /\ UNCHANGED <<xps_queue, updated>>
       \/ /\ ~EmptyInClause(districts)
          /\ LET latest == LatestQueueIds(districts, dir_paths)
             IN  /\ xps_queue' = [q \in DOMAIN xps_queue |->
                        IF q \in latest
                        THEN [xps_queue[q] EXCEPT !.xpsQueueStatusID = 2,
                                                  !.xpsQueueResultID = 5]
                        ELSE xps_queue[q]]
                 /\ updated' = Cardinality(latest)
          /\ rerun_pc' = "returned"
          /\ UNCHANGED db_failed
    /\ bump_calls' = bump_calls + 1
    /\ UNCHANGED <<db_requests, checksums, rr_request_ids, rr_delete_checksums,
                   checksum_keys, districts, dir_paths, deleted, last_op>>
    /\ UNCHANGED <<batch_vars, wf_vars, path_vars, mon_vars, ext_vars>>

\* The operations that only query the database or the file server.
ReadOperations ==
    {"find_requests", "download_files", "restore_files",
     "bulk_file_download_workflow", "integration_monitoring_workflow"}

\* Variant of ReadEffect: the operation marks every queue row pending.
ReadEffect_BumpsQueue ==
    /\ xps_queue' = [q \in DOMAIN xps_queue |->
           [xps_queue[q] EXCEPT !.xpsQueueStatusID = 2, !.xpsQueueResultID = 5]]
    /\ UNCHANGED <<db_requests, checksums>>

\* What a querying operation does to the tables: SELECTs only, no commit.
ReadEffect == UNCHANGED <<db_requests, checksums, xps_queue>>

\* One of the querying operations runs, before the rerun call or after it
\* returned.
ReadOperation(o) ==
    /\ rerun_pc \in {"start", "returned"}
    /\ last_op # o
    /\ last_op' = o
    /\ ReadEffect
    /\ UNCHANGED <<rr_request_ids, rr_delete_checksums, checksum_keys, districts,
                   dir_paths, deleted, updated, bump_calls, rerun_pc, db_failed>>
    /\ UNCHANGED <<batch_vars, wf_vars, path_vars, mon_vars, ext_vars>>

RerunStart ==
    /\ db_requests = RequestTable
    /\ checksums = (DOMAIN XpsDistrictUploads) \X ChecksumKeys
    /\ xps_queue \in {[q \in DOMAIN us |-> QueueRow(us[q])] :
                         us \in SeqsUpTo(DOMAIN XpsDistrictUploads, MaxQueue)}
    /\ rr_request_ids \in SeqsUpTo(RerunIdUniverse, MaxRerunIds)
    /\ rr_delete_checksums \in BOOLEAN
    /\ checksum_keys \in (IF rr_delete_checksums THEN {{}, {"k1"}} ELSE {{}})
    /\ districts = <<>>
    /\ dir_paths = <<>>
    /\ deleted = 0
    /\ updated = 0
    /\ bump_calls = 0
    /\ rerun_pc = "start"
    /\ db_failed = FALSE
    /\ last_op = "none"

InitRerun == BatchIdle /\ WfIdle /\ PathIdle /\ MonitorIdle /\ RerunStart /\ ExtIdle

NextRerun ==
    \/ RerunResolve
    \/ RerunClearChecksums
    \/ RerunBumpQueue
    \/ \E o \in ReadOperations : ReadOperation(o)

SpecRerun == InitRerun /\ [][NextRerun]_vars

\* --------------------------------------------------------------------
\* find_requests, and the workflows that rerun what it finds
\* (RequestManager.find_requests -> DatabaseManager.find_latest_requests;
\* CommonWorkflows.district_refresh_workflow;
\* AsyncRequestManager.batch_rerun_by_district)

\* statuses: Sequence[int] = (4, 5), the default of find_requests.
DefaultStatuses == {4, 5}

\* The Request rows of the table the finds read: find_requests passes no
\* since_date, so the request times play no part and are all the same.
FindRows == {r \in RequestRows : r.Age = 1}

WorkflowCallers == {"district_refresh_workflow", "batch_rerun_by_district"}

\* find_requests(type_ids, type_names, district_ids, statuses) runs the query
\* and returns its list; a workflow returns at once on an empty list
\* (`if not requests:`) and goes on to its restore and rerun steps otherwise.
FindRequests ==
    /\ find_pc = "start"
    /\ \E l \in FindLatestRequests(find_table, arg_type_ids, arg_type_names,
                                   arg_district_ids, arg_statuses, None) :
          /\ found_requests' = l
          /\ find_pc' = IF find_caller \in WorkflowCallers /\ l # <<>>
                        THEN "rerun" ELSE "returned"
    /\ UNCHANGED <<find_table, find_caller, arg_type_ids, arg_type_names,
                   arg_district_ids, arg_statuses, processed_ids>>
    /\ UNCHANGED <<batch_vars, wf_vars, core_aux_vars, dl_vars, retry_vars>>

\* request_ids = [r.RequestID for r in requests]; the workflow hands this list
\* to restore_files_batch (district_refresh_workflow with restore_files) and
\* to rerun_requests.
WorkflowRerun ==
    /\ find_pc = "rerun"
    /\ processed_ids' = [k \in DOMAIN found_requests |-> found_requests[k].RequestID]
    /\ find_pc' = "returned"
    /\ UNCHANGED <<find_table, find_caller, arg_type_ids, arg_type_names,
                   arg_district_ids, arg_statuses, found_requests>>
    /\ UNCHANGED <<batch_vars, wf_vars, core_aux_vars, dl_vars, retry_vars>>

\* A call of find_requests, or of a workflow, which passes district_ids and
\* type_names only (no type_ids, the default statuses).
FindStart ==
    /\ find_table \in SeqsUpTo(FindRows, MaxRequests)
    /\ find_caller \in {"find_requests"} \cup WorkflowCallers
    /\ arg_type_ids \in (IF find_caller = "find_requests" THEN {{}, {2}} ELSE {{}})
    /\ arg_type_names \in {{}, {SAT}, {PSAT}}
    /\ arg_district_ids \in {{}, {1}, {2}}
    /\ arg_statuses \in (IF find_caller = "find_requests"
                         THEN {DefaultStatuses, {5}} ELSE {DefaultStatuses})
    /\ found_requests = <<>>
    /\ processed_ids = <<>>
    /\ find_pc = "start"

InitFind == BatchIdle /\ WfIdle /\ PathIdle /\ MonitorIdle /\ RerunIdle
            /\ DownloadIdle /\ RetryIdle /\ FindStart

NextFind == FindRequests \/ WorkflowRerun

SpecFind == InitFind /\ [][NextFind]_vars

\* --------------------------------------------------------------------
\* retry_with_backoff (error_handling.py): the wrapper around func

\* initial_delay and backoff_factor values (seconds, factor).
InitialDelays == {1, 2}

BackoffFactors == {1, 2}

\* What one invocation of func does: it returns, raises an exception that is
\* in `exceptions`, or raises another exception.
FuncOutcomes == {"returned", "retryable", "other"}

\* Variant of IsLastAttempt: the wrapper gives up one attempt later.
IsLastAttempt_OneLater(a, n) == a = n + 1

\* `if attempt == max_retries:`
IsLastAttempt(a, n) == a = n

\* One pass of `for attempt in range(max_retries + 1)` up to the sleep:
\* `return func(*args, **kwargs)`; an exception not in `exceptions` leaves the
\* wrapper; one in `exceptions` is kept in last_exception and is raised again
\* on the last attempt. Invocation k returns the value k or raises exception k.
Invoke ==
    /\ retry_pc = "call"
    /\ attempt <= max_retries
    /\ \E o \in FuncOutcomes :
          LET k == Len(invocations) + 1
          IN  /\ invocations' = Append(invocations, o)
              /\ \/ /\ o = "returned"
                    /\ retry_outcome' = [kind |-> "returned", of |-> k]
                    /\ retry_pc' = "returned"
                    /\ UNCHANGED last_exception
                 \/ /\ o = "other"
                    /\ retry_outcome' = [kind |-> "raised", of |-> k]
                    /\ retry_pc' = "raised"
                    /\ UNCHANGED last_exception
                 \/ /\ o = "retryable"
                    /\ last_exception' = k
                    /\ IF IsLastAttempt(attempt, max_retries)
                       THEN /\ retry_outcome' = [kind |-> "raised", of |-> k]
                            /\ retry_pc' = "raised"
                       ELSE /\ retry_pc' = "sleep"
                            /\ UNCHANGED retry_outcome
    /\ UNCHANGED <<max_retries, initial_delay, backoff_factor, attempt, delay, sleeps>>
    /\ UNCHANGED <<batch_vars, wf_vars, core_aux_vars, find_vars, dl_vars>>

\* time.sleep(delay); delay *= backoff_factor; the loop goes to the next attempt.
Sleep ==
    /\ retry_pc = "sleep"
    /\ sleeps' = Append(sleeps, delay)
    /\ delay' = delay * backoff_factor
    /\ attempt' = attempt + 1
    /\ retry_pc' = "call"
    /\ UNCHANGED <<max_retries, initial_delay, backoff_factor, last_exception,
                   invocations, retry_outcome>>
    /\ UNCHANGED <<batch_vars, wf_vars, core_aux_vars, find_vars, dl_vars>>

\* The loop ended without a return or a raise: `raise last_exception` (with
\* last_exception still None the raise itself fails with a TypeError).
LoopExhausted ==
    /\ retry_pc = "call"
    /\ attempt > max_retries
    /\ retry_outcome' = [kind |-> IF last_exception = None THEN "type_error" ELSE "raised",
                         of |-> last_exception]
    /\ retry_pc' = "raised"
    /\ UNCHANGED <<max_retries, initial_delay, backoff_factor, attempt, delay,
                   last_exception, invocations, sleeps>>
    /\ UNCHANGED <<batch_vars, wf_vars, core_aux_vars, find_vars, dl_vars>>

\* A call of the wrapped function: last_exception = None, delay = initial_delay.
RetryStart ==
    /\ max_retries \in -1..MaxRetries
    /\ initial_delay \in InitialDelays
    /\ backoff_factor \in BackoffFactors
    /\ attempt = 0
    /\ delay = initial_delay
    /\ last_exception = None
    /\ invocations = <<>>
    /\ sleeps = <<>>
    /\ retry_outcome = [kind |-> "none", of |-> None]
    /\ retry_pc = "call"

InitRetry == BatchIdle /\ WfIdle /\ PathIdle /\ MonitorIdle /\ RerunIdle
             /\ FindIdle /\ DownloadIdle /\ RetryStart

NextRetry == Invoke \/ Sleep \/ LoopExhausted

SpecRetry == InitRetry /\ [][NextRetry]_vars

\* --------------------------------------------------------------------
\* FileManager.download_files_for_requests (file_manager.py)

\* What one download attempt (download_requestid_raw_files or
\* download_requestid_backup_file) can do: return (True, n, msg) with n >= 1
\* files, return (False, n, msg) with fewer files than there are, or raise.
AttemptOutcomes ==
    {[raised |-> FALSE, ok |-> TRUE, count |-> c] : c \in 1..MaxFiles}
    \cup {[raised |-> FALSE, ok |-> FALSE, count |-> c] : c \in 0..(MaxFiles - 1)}
    \cup {[raised |-> TRUE, ok |-> FALSE, count |-> 0]}

\* One entry of the results dict; the message of an attempt that returned is
\* modelled by the attempt that wrote it ("raw" or "backup").
DownloadEntry(ok, count, msg) ==
    [success |-> ok, files_downloaded |-> count, message |-> msg]

\* The entry of an id whose request directory could not be created.
DirFailedEntry == DownloadEntry(FALSE, 0, "Failed to create request directory")

\* except Exception as e: ok = False; count = 0; msg = "Exception during download: ..."
ExceptionEntry == DownloadEntry(FALSE, 0, "Exception during download")

\* The entry written after the last attempt `last` of kind `kind`.
EntryAfter(kind, last) ==
    IF last.raised THEN ExceptionEntry
    ELSE DownloadEntry(last.ok, last.count, kind)

\* One element of the record of attempts made.
Attempt(i, id, kind, outcome) ==
    [idx |-> i, request_id |-> id, kind |-> kind, outcome |-> outcome]

\* Variant of RawFailed: the backup archive is never tried.
RawFailed_Never(raw) == FALSE

\* `if not ok:` after the raw attempt returned.
RawFailed(raw) == ~raw.ok

\* os.makedirs(local_download_dir, exist_ok=True): a failure is raised as a
\* RuntimeError; otherwise results = {} and the loop starts.
MakeDownloadsDir ==
    /\ dl_pc = "start"
    /\ dl_pc' \in {"loop", "raised"}
    /\ UNCHANGED <<dl_request_ids, dl_idx, dl_results, dl_attempts>>
    /\ UNCHANGED <<batch_vars, wf_vars, core_aux_vars, find_vars, retry_vars>>

\* One pass of `for idx, request_id in enumerate(request_ids, start=1)`: the
\* request directory is created (a failure writes an entry and continues);
\* the raw attempt, the backup attempt `if not ok`, both inside one try whose
\* except writes the failure values; then results[request_id] = {...}.
DownloadOne ==
    /\ dl_pc = "loop"
    /\ dl_idx <= Len(dl_request_ids)
    /\ LET id == dl_request_ids[dl_idx]
       IN  \/ /\ dl_results' = Put(dl_results, id, DirFailedEntry)
              /\ UNCHANGED dl_attempts
           \/ \E raw \in AttemptOutcomes :
                 LET first == Attempt(dl_idx, id, "raw", raw)
                 IN  IF raw.raised \/ ~RawFailed(raw)
                     THEN /\ dl_attempts' = Append(dl_attempts, first)
                          /\ dl_results' = Put(dl_results, id, EntryAfter("raw", raw))
                     ELSE \E bk \in AttemptOutcomes :
                             /\ dl_attempts' = dl_attempts \o
                                   <<first, Attempt(dl_idx, id, "backup", bk)>>
                             /\ dl_results' = Put(dl_results, id, EntryAfter("backup", bk))
    /\ dl_idx' = dl_idx + 1
    /\ UNCHANGED <<dl_request_ids, dl_pc>>
    /\ UNCHANGED <<batch_vars, wf_vars, core_aux_vars, find_vars, retry_vars>>

\* The loop is over: return results.
DownloadReturn ==
    /\ dl_pc = "loop"
    /\ dl_idx > Len(dl_request_ids)
    /\ dl_pc' = "returned"
    /\ UNCHANGED <<dl_request_ids, dl_idx, dl_results, dl_attempts>>
    /\ UNCHANGED <<batch_vars, wf_vars, core_aux_vars, find_vars, retry_vars>>

DownloadStart ==
    /\ dl_request_ids \in SeqsUpTo(RequestIdUniverse, MaxDownloadIds)
    /\ dl_idx = 1
    /\ dl_results = <<>>
    /\ dl_attempts = <<>>
    /\ dl_pc = "start"

InitDownload == BatchIdle /\ WfIdle /\ PathIdle /\ MonitorIdle /\ RerunIdle
                /\ FindIdle /\ RetryIdle /\ DownloadStart

NextDownload == MakeDownloadsDir \/ DownloadOne \/ DownloadReturn

SpecDownload == InitDownload /\ [][NextDownload]_vars

\* ====================================================================
\* Properties
\* ====================================================================

Returned == batch_pc = "returned"

\* The single-item call of item i came back without raising.
ItemReturned(i) == pc[i] = "done" /\ ~thread_raised[i]

\* C1: when the per-item operation of some request id raises, the returned
\* result map has an entry for that id with success = false, and the entries
\* of all other ids are still returned.
C1_RaisedItemGetsFailureEntry ==
    Returned =>
        \A i \in Items :
            /\ request_ids[i] \in DOMAIN final_results
            /\ thread_raised[i] => ~final_results[request_ids[i]].success

\* C2: in every interleaving the number of per-item operations running on
\* worker threads at the same time never exceeds max_concurrent.
C2_InProgressAtMostMaxConcurrent ==
    Cardinality(InProgress) <= max_concurrent

\* C2 witness: the limit is reached while a further item waits for a slot.
C2_Witness ==
    /\ Cardinality(InProgress) = max_concurrent
    /\ \E i \in Items : pc[i] = "pending"

\* C3: concurrently running tasks of one batch share no mutable state: while
\* a task is inside its FileManager context, the manager's SFTP/SSH client
\* fields hold the handles that task wrote (no other running task wrote them).
C3_NoSharedMutableState ==
    \A i \in Items :
        (pc[i] \in {"work", "exit"} /\ sftp[i] # None) =>
            (fm_sftp_client = sftp[i] /\ fm_ssh_client = sftp[i])

\* The returned map's keys are input ids and it is no larger than the input.
KeysWithinInput ==
    /\ DOMAIN final_results \subseteq Range(request_ids)
    /\ Cardinality(DOMAIN final_results) <= Len(request_ids)

\* C10 (as stated): keys are a subset of the input ids, the size is at most
\* the number of input ids, and the entry of every item that did not succeed
\* (its call returned without success) has success = false, duplicates included.
C10_FailedItemEntryIsFailure ==
    Returned =>
        /\ KeysWithinInput
        /\ \A i \in Items :
              (ItemReturned(i) /\ ~task_entry[i].success) =>
                  (/\ request_ids[i] \in DOMAIN final_results
                   /\ ~final_results[request_ids[i]].success)

\* C10 (amended): keys are a subset of the input ids, the size is at most the
\* number of input ids, and the entry of an id is the outcome of the last
\* occurrence of that id whose call returned: what the single-item result holds
\* for the id, or {success: false, message: 'Unknown error'} when it holds
\* nothing, so it has success = false whenever that occurrence did not succeed.
C10_EntryIsLastReturnedOutcome ==
    Returned =>
        /\ KeysWithinInput
        /\ \A k \in DOMAIN final_results :
              \E i \in Items :
                 /\ request_ids[i] = k
                 /\ ~thread_raised[i]
                 /\ \A j \in Items : (j > i /\ request_ids[j] = k) => thread_raised[j]
                 /\ final_results[k] =
                       IF k \in DOMAIN thread_result[i]
                       THEN thread_result[i][k]
                       ELSE Entry(FALSE, "Unknown error")

\* C10 witness: a returned batch over a list with a duplicate id in which an
\* occurrence failed and some entry is the default 'Unknown error' one or a
\* failure.
C10_Witness ==
    /\ Returned
    /\ Len(request_ids) = 2
    /\ request_ids[1] = request_ids[2]
    /\ ItemReturned(1) /\ ~task_entry[1].success
    /\ ItemReturned(2) /\ thread_result[2] = EmptyMap
    /\ final_results[request_ids[2]] = Entry(FALSE, "Unknown error")

WfDone == wf_pc = "done"

\* C4: no workflow raises to its caller: for an exception raised by a
\* request-manager operation at any step the workflow returns success = false,
\* and no operation is invoked after the failing one.
C4_ExceptionBecomesFailedResult ==
    /\ ~wf_raised
    /\ exception_at # "none" =>
          /\ WfDone
          /\ ~wf_result.success
          /\ calls # <<>>
          /\ calls[Len(calls)] = exception_at
          /\ \A i \in DOMAIN calls : i < Len(calls) => calls[i] # exception_at

\* C4 witness: restore_files_batch raised inside district_refresh_workflow.
C4_Witness ==
    /\ workflow = "district_refresh"
    /\ exception_at = "restore_files_batch"
    /\ WfDone

\* C5: when district_refresh_workflow or bulk_file_download_workflow aborts on
\* an exception, steps_completed is the number of steps finished before it (0
\* when find raised) and data holds the payload of exactly the finished steps.
C5_AbortReportsFinishedSteps ==
    (WfDone /\ exception_at # "none" /\ workflow \in {"district_refresh", "bulk_download"}) =>
        /\ wf_result.steps_completed = Len(calls) - 1
        /\ ("requests_found" \in wf_result.data) <=> (exception_at # "find_requests")
        /\ workflow = "district_refresh" =>
              /\ ("request_ids" \in wf_result.data) <=> (exception_at # "find_requests")
              /\ ("restore_results" \in wf_result.data) <=>
                     (restore_files /\ exception_at = "rerun_requests")

\* The find step returned and found nothing.
FoundNothing == calls # <<>> /\ exception_at # "find_requests" /\ requests = <<>>

\* C6: when find returns zero requests, district_refresh_workflow returns
\* success = false with requests_found = 0 and steps_completed = 0, and
\* neither restore_files_batch nor rerun_requests is invoked.
C6_NoRequestsShortCircuits ==
    (workflow = "district_refresh" /\ FoundNothing) =>
        /\ WfDone
        /\ ~wf_raised
        /\ ~wf_result.success
        /\ "requests_found" \in wf_result.data
        /\ wf_result.requests_found = 0
        /\ wf_result.steps_completed = 0
        /\ calls = <<"find_requests">>

\* C6 witness: the empty find with both optional steps switched on.
C6_Witness ==
    /\ workflow = "district_refresh"
    /\ FoundNothing
    /\ restore_files
    /\ delete_checksums
    /\ WfDone

\* C7: every returned WorkflowResult has 0 <= steps_completed <= total_steps.
C7_StepsWithinTotal ==
    WfDone =>
        /\ 0 <= wf_result.steps_completed
        /\ wf_result.steps_completed <= wf_result.total_steps

\* C7 witness: a district refresh that completed all three steps.
C7_Witness ==
    /\ WfDone
    /\ workflow = "district_refresh"
    /\ wf_result.success
    /\ wf_result.steps_completed = 3

\* C8: total_steps of district_refresh_workflow is 3 with restore_files and 2
\* without, and in every workflow success = true exactly when
\* steps_completed = total_steps.
C8_SuccessIffAllSteps ==
    WfDone =>
        /\ workflow = "district_refresh" =>
              wf_result.total_steps = (IF restore_files THEN 3 ELSE 2)
        /\ wf_result.success <=> (wf_result.steps_completed = wf_result.total_steps)

\* C8 witness: a successful district refresh without the restore step.
C8_Witness ==
    /\ WfDone
    /\ workflow = "district_refresh"
    /\ ~restore_files
    /\ wf_result.success
    /\ wf_result.steps_completed = 2

\* Position of an operation in the order find -> restore -> rerun.
StepRank(o) ==
    CASE o = "find_requests"       -> 1
      [] o = "restore_files_batch" -> 2
      [] o = "rerun_requests"      -> 3
      [] OTHER                     -> 0

\* C9: in district_refresh_workflow the operations happen in the order
\* find_requests, restore_files_batch (only with restore_files), rerun_requests,
\* each at most once; rerun_requests never starts before restore_files_batch
\* has returned, and restore_files_batch is never invoked without restore_files.
C9_RefreshStepOrder ==
    workflow = "district_refresh" =>
        /\ \A i, j \in DOMAIN calls : i < j => StepRank(calls[i]) < StepRank(calls[j])
        /\ calls # <<>> => calls[1] = "find_requests"
        /\ "restore_files_batch" \in Range(calls) => restore_files
        /\ ("rerun_requests" \in Range(calls) /\ restore_files) =>
              /\ "restore_files_batch" \in Range(calls)
              /\ "restore_results" \in workflow_data
              /\ wf_pc # "restoring"

\* C9 witness: all three operations were invoked.
C9_Witness ==
    /\ workflow = "district_refresh"
    /\ calls = <<"find_requests", "restore_files_batch", "rerun_requests">>

\* Files reported for the found requests from position i on, in list order
\* (a request without a download entry counts 0).
RECURSIVE FilesOfRequests(_)
FilesOfRequests(i) ==
    IF i > Len(requests) THEN 0
    ELSE (IF requests[i] \in DOMAIN files_downloaded
          THEN files_downloaded[requests[i]] ELSE 0) + FilesOfRequests(i + 1)

\* C18: bulk_file_download_workflow returns success with steps 2 of 2 whenever
\* find returned at least one request and the batch download call returned,
\* whatever the downloads' outcomes; total_requests is the number of requests
\* found, successful_requests the number of download entries with success
\* true (at most total_requests), total_files_downloaded the sum of
\* files_downloaded over the download entries.
C18_BulkSuccessAndSummary ==
    (workflow = "bulk_download" /\ WfDone /\ requests # <<>> /\ exception_at = "none") =>
        /\ wf_result.success
        /\ wf_result.steps_completed = 2 /\ wf_result.total_steps = 2
        /\ summary.total_requests = Len(requests)
        /\ summary.successful_requests =
              Cardinality({i \in DOMAIN requests :
                              /\ requests[i] \in DOMAIN batch_result
                              /\ batch_result[requests[i]]})
        /\ summary.successful_requests <= summary.total_requests
        /\ summary.total_files_downloaded = FilesOfRequests(1)

\* A bulk download returned with a failed download, a missing entry and files.
C18_Witness ==
    /\ workflow = "bulk_download" /\ WfDone /\ exception_at = "none"
    /\ wf_result.success
    /\ \E k \in DOMAIN batch_result : ~batch_result[k]
    /\ \E i \in DOMAIN requests : requests[i] \notin DOMAIN batch_result
    /\ summary.total_files_downloaded > 0

\* --------------------------------------------------------------------
\* Batch executor: slots and connections

\* C14: a limiter slot is held from an item's admission until its operation
\* has returned or raised (no timeout, no cancellation): every admitted item
\* whose task has not resumed accounts for one taken slot, and while the
\* operation of some item has not come back the batch call has not returned.
C14_SlotHeldUntilOperationEnds ==
    /\ semaphore = max_concurrent - Cardinality({i \in Items : pc[i] \in Holding})
    /\ \A i \in Items : pc[i] \in Holding => ~Returned

\* An operation is running with the last slot while another item waits.
C14_Witness ==
    /\ semaphore = 0
    /\ \E i, j \in Items : pc[i] = "work" /\ pc[j] = "pending"

\* C20: with max_concurrent >= 2, a connection a task opened and is still
\* using is never closed by another task: while a task is inside its
\* FileManager context the connection it opened is open.
C20_OwnConnectionStaysOpen ==
    max_concurrent >= 2 =>
        \A i \in Items : pc[i] = "work" => sftp[i] \in conn_open

\* --------------------------------------------------------------------
\* Path resolver

\* C15: the resolver is idempotent: resolving its own output again returns
\* that output unchanged, resolve(resolve(p)) = resolve(p), for every p.
C15_ResolverIdempotent ==
    path_pc = "again" => remote_path2 = remote_path

\* The transform as the resolver is described: separators unified, a leading
\* drive letter (a letter followed by a colon) dropped, then the part from
\* the first "districts/" onward, or else the path without leading slashes.
IsLetter(c) == c \notin {"/", "\\", ":", " "}

HasDriveLetter(p) == Len(p) >= 2 /\ IsLetter(p[1]) /\ p[2] = ":"

RECURSIVE SqueezeSlashes(_)
SqueezeSlashes(p) ==
    IF Len(p) < 2 THEN p
    ELSE IF p[1] = "/" /\ p[2] = "/"
         THEN SqueezeSlashes(Tail(p))
         ELSE <<p[1]>> \o SqueezeSlashes(Tail(p))

DescribedRemotePath(dbp) ==
    LET unified == ReplaceBackslash(Strip(dbp))
        nodrive == IF HasDriveLetter(unified)
                   THEN SubSeq(unified, 3, Len(unified)) ELSE unified
        at == Find(Lower(nodrive), DistrictsMarker)
        rest == IF at # -1 THEN SubSeq(nodrive, at + 1, Len(nodrive))
                ELSE LStripSlash(nodrive)
    IN  <<"/">> \o SqueezeSlashes(rest)

\* The result starts with exactly one "/", has no backslash and no "//".
WellFormedRemotePath(r) ==
    /\ Len(r) >= 1 /\ r[1] = "/"
    /\ \A i \in 1..Len(r) : r[i] # "\\"
    /\ Find(r, <<"/", "/">>) = -1

\* C16: for every input the resolver unifies the separators and drops a
\* leading drive letter; the result is "/" plus the path from the first
\* "districts/" (case-insensitive) onward if there is one, else "/" plus the
\* path without its leading slashes; it starts with exactly one "/", has no
\* backslash and no "//", and a blank input gives "/".
C16_ResolverAsDescribed ==
    path_pc \in {"resolved", "again"} =>
        /\ remote_path = DescribedRemotePath(db_path)
        /\ WellFormedRemotePath(remote_path)
        /\ Strip(db_path) = <<>> => remote_path = <<"/">>

\* --------------------------------------------------------------------
\* Monitoring

Analysed == mon_pc = "analysed"

\* Sum of one counter over the keys of a by_type / by_district map.
RECURSIVE SumCounter(_, _)
SumCounter(m, field) ==
    IF DOMAIN m = {} THEN 0
    ELSE LET k == CHOOSE x \in DOMAIN m : TRUE
         IN  m[k][field] + SumCounter([x \in (DOMAIN m) \ {k} |-> m[x]], field)

\* C17: for a non-empty list of found requests with status 4 or 5, success +
\* failed of by_status is total_requests; the counts summed over by_type and
\* over by_district equal by_status; districts_with_failures is exactly the
\* set of districts with a failed request; healthy_districts plus
\* districts_with_issues is the number of distinct districts.
C17_AnalysisCountsAddUp ==
    Analysed =>
        /\ analysis.by_status.success + analysis.by_status.failed
              = monitor_data.total_requests
        /\ monitor_data.total_requests = Len(all_requests)
        /\ \A f \in {"success", "failed"} :
              /\ SumCounter(analysis.by_type, f) = analysis.by_status[f]
              /\ SumCounter(analysis.by_district, f) = analysis.by_status[f]
        /\ analysis.districts_with_failures =
              {all_requests[i].DistrictID :
                  i \in {j \in DOMAIN all_requests : all_requests[j].Status = 4}}
        /\ monitor_data.healthy_districts + monitor_data.districts_with_issues
              = Cardinality({all_requests[i].DistrictID : i \in DOMAIN all_requests})

\* An analysis of failed and successful requests of two districts and types.
C17_Witness ==
    /\ Analysed
    /\ analysis.by_status.success > 0 /\ analysis.by_status.failed > 0
    /\ Cardinality(DOMAIN analysis.by_district) = 2
    /\ Cardinality(DOMAIN analysis.by_type) = 2

\* C19: only requests whose request time lies within the last days_back days
\* are analysed: no analysed request is older than days_back days.
C19_OnlyRecentRequestsAnalysed ==
    Analysed => \A i \in DOMAIN all_requests : all_requests[i].Age <= days_back

\* --------------------------------------------------------------------
\* rerun_requests

\* The id has a Request row and a directory path.
Resolvable(id) ==
    /\ id \in DOMAIN db_requests
    /\ \/ db_requests[id].ImportedFileName # ""
       \/ \E u \in DOMAIN XpsDistrictUploads :
             XpsDistrictUploads[u].DistrictID = db_requests[id].DistrictID

\* The resolvable ids of a list, in list order.
RECURSIVE ResolvableIds(_)
ResolvableIds(ids) ==
    IF ids = <<>> THEN <<>>
    ELSE IF Resolvable(Head(ids)) THEN <<Head(ids)>> \o ResolvableIds(Tail(ids))
    ELSE ResolvableIds(Tail(ids))

\* C11: an id without a Request row or without a resolvable directory path is
\* skipped: the districts and directory paths are exactly those of the other
\* ids, and a list with such an id (even one in which no id resolves) does
\* not make the call raise (only an outside database failure does).
C11_UnresolvedIdsAreSkipped ==
    LET kept == ResolvableIds(rr_request_ids)
    IN  /\ rerun_pc \in {"clear", "bump", "returned"} =>
              /\ Len(districts) = Len(kept) /\ Len(dir_paths) = Len(kept)
              /\ \A i \in DOMAIN kept :
                    /\ districts[i] = db_requests[kept[i]].DistrictID
                    /\ dir_paths[i] \in DirectoryPathsForRequest(db_requests[kept[i]])
        /\ (rerun_pc = "raised" /\ Len(kept) < Len(rr_request_ids)) => db_failed

\* The eligible uploads of the targeted (district, directory path) pairs.
TargetedUploads ==
    {u \in DOMAIN XpsDistrictUploads :
        /\ XpsDistrictUploads[u].Eligible
        /\ \E i \in DOMAIN districts :
              /\ XpsDistrictUploads[u].DistrictID = districts[i]
              /\ XpsDistrictUploads[u].DirectoryPath = dir_paths[i]}

\* The latest queue row of each targeted upload that has one.
LatestRowPerTargetedUpload ==
    {q \in DOMAIN xps_queue :
        /\ xps_queue[q].xpsDistrictUploadID \in TargetedUploads
        /\ \A q2 \in DOMAIN xps_queue :
              xps_queue[q2].xpsDistrictUploadID = xps_queue[q].xpsDistrictUploadID
                  => q2 <= q}

Pending(q) ==
    xps_queue[q].xpsQueueStatusID = 2 /\ xps_queue[q].xpsQueueResultID = 5

\* C12: the queue bump sets to pending (status 2, result 5) the latest queue
\* entry of every targeted district/directory that has one, also when two
\* targeted directories belong to one district, and changes no other entry.
C12_BumpsLatestPerDirectory ==
    rerun_pc = "returned" =>
        \A q \in DOMAIN xps_queue :
            IF q \in LatestRowPerTargetedUpload
            THEN Pending(q)
            ELSE xps_queue[q] = QueueRow(xps_queue[q].xpsDistrictUploadID)

\* C13: no operation creates, deletes or modifies a Request row, and the
\* checksum and queue tables change only in steps of rerun_requests; find,
\* download, restore, bulk download and monitoring leave them unchanged.
C13_OnlyRerunChangesTables ==
    [][/\ db_requests' = db_requests
       /\ (checksums' # checksums \/ xps_queue' # xps_queue) =>
             (last_op' = "rerun_requests" /\ rerun_pc \in {"clear", "bump"})]_vars

\* A querying operation ran after a rerun that deleted checksums and bumped
\* a queue row.
C13_Witness ==
    /\ last_op \in ReadOperations
    /\ rerun_pc = "returned"
    /\ deleted > 0 /\ updated > 0
    /\ checksums # (DOMAIN XpsDistrictUploads) \X ChecksumKeys
    /\ \E q \in DOMAIN xps_queue : Pending(q)


\* --------------------------------------------------------------------
\* rerun_requests: which checksums go, and in which order the steps run

\* Every row of the checksum table before the call.
AllChecksums == (DOMAIN XpsDistrictUploads) \X ChecksumKeys

\* The (district, directory path) combinations of the resolved requests.
ResolvedCombinations ==
    {<<districts[i], dir_paths[i]>> : i \in DOMAIN districts}

\* C23: with delete_checksums, only checksum entries of a (district,
\* directory path) combination of one resolved request are deleted; an entry
\* whose district comes from one request and whose directory path comes from
\* another request stays.
C23_DeletesOnlyResolvedCombinations ==
    \A c \in AllChecksums \ checksums :
        <<XpsDistrictUploads[c[1]].DistrictID,
          XpsDistrictUploads[c[1]].DirectoryPath>> \in ResolvedCombinations

\* The checksum rows the DELETE of this call removes from the full table.
DeletedByCall ==
    {c \in AllChecksums :
        /\ c[1] \in SelectedUploads(districts, dir_paths)
        /\ checksum_keys # {} => c[2] \in checksum_keys}

\* C25: checksums are deleted only when delete_checksums is true, and then
\* the deletion is done and committed before the queue bump is issued; when
\* it is false no checksum changes and checksums_deleted is 0; in both cases
\* the queue bump is issued exactly once (in every call the database itself
\* does not fail).
C25_DeleteThenBumpOnce ==
    /\ ~rr_delete_checksums => (checksums = AllChecksums /\ deleted = 0)
    /\ (rr_delete_checksums /\ bump_calls > 0) =>
          checksums = AllChecksums \ DeletedByCall
    /\ bump_calls <= 1
    /\ (rerun_pc \in {"returned", "raised"} /\ ~db_failed) => bump_calls = 1

\* C26: the checksum deletion is committed on its own: when the queue bump
\* that follows it fails, the deleted checksum entries stay deleted and the
\* queue is as before the call.
C26_DeletionSurvivesFailedBump ==
    (rerun_pc = "raised" /\ bump_calls = 1 /\ rr_delete_checksums) =>
        /\ checksums = AllChecksums \ DeletedByCall
        /\ deleted = Cardinality(DeletedByCall)
        /\ \A q \in DOMAIN xps_queue :
              xps_queue[q] = QueueRow(xps_queue[q].xpsDistrictUploadID)

\* The queue bump failed after a deletion that removed checksum entries.
C26_Witness ==
    /\ rerun_pc = "raised" /\ bump_calls = 1 /\ db_failed
    /\ rr_delete_checksums
    /\ deleted > 0
    /\ checksums # AllChecksums


\* --------------------------------------------------------------------
\* district_refresh_workflow: the ids handed to rerun_requests

\* C27: district_refresh_workflow invokes rerun_requests with exactly the
\* list of request ids the find step returned, in the same order, whatever
\* the outcomes of the restore step.
C27_RerunGetsFoundIds ==
    (workflow = "district_refresh" /\ "rerun_requests" \in Range(calls)) =>
        rerun_args = requests

\* rerun_requests was invoked after a restore step that did not restore every
\* one of two found requests.
C27_Witness ==
    /\ workflow = "district_refresh"
    /\ calls = <<"find_requests", "restore_files_batch", "rerun_requests">>
    /\ requests = <<2, 1>>
    /\ \E id \in Range(requests) :
          id \notin DOMAIN batch_result \/ ~batch_result[id]
    /\ rerun_args = <<2, 1>>


\* --------------------------------------------------------------------
\* The batch operations: termination

\* C28: for any id list and any max_concurrent >= 1, when every per-item
\* operation ends (returns or raises), every item is eventually admitted and
\* the batch call eventually returns; by then every item was admitted and has
\* ended and every slot is free again: an operation that raises frees its
\* slot just as one that returns.
C28_EveryItemAdmittedAndBatchReturns ==
    <>(/\ Returned
       /\ \A i \in Items : pc[i] = "done"
       /\ semaphore = max_concurrent)

\* The batch returned although the first of more items than slots raised.
C28_Witness ==
    /\ Returned
    /\ max_concurrent < Len(request_ids)
    /\ thread_raised[1]
    /\ \A i \in Items : pc[i] = "done"


\* --------------------------------------------------------------------
\* find_latest_requests and what the workflows do with its result

\* C21: every request district_refresh_workflow or batch_rerun_by_district
\* restores or reruns belongs to one of the district ids given; with an empty
\* district id list nothing is restored or rerun.
C21_OnlyGivenDistrictsProcessed ==
    find_caller \in WorkflowCallers =>
        \A k \in DOMAIN processed_ids :
            find_table[processed_ids[k]].DistrictID \in arg_district_ids

\* The type of request i is one of type_ids or its name starts with one of the
\* prefixes (case-insensitively).
TypeAskedFor(i) ==
    LET t == find_table[i].DataRequestTypeID
    IN  \/ t \in arg_type_ids
        \/ \E p \in arg_type_names : ILikePrefix(DataRequestTypes[t], p)

\* C22: when type ids and/or type-name prefixes are passed, every returned
\* request has a type in type_ids or a type whose name starts with one of the
\* prefixes, also when the prefixes match no type at all; when district_ids
\* is passed, every returned request belongs to one of those districts.
C22_ReturnedRequestsMatchFilters ==
    find_pc # "start" =>
        /\ (arg_type_ids # {} \/ arg_type_names # {}) =>
              \A k \in DOMAIN found_requests : TypeAskedFor(found_requests[k].RequestID)
        /\ arg_district_ids # {} =>
              \A k \in DOMAIN found_requests :
                  found_requests[k].DistrictID \in arg_district_ids

\* Requests i and j are of the same (DistrictID, DataRequestTypeID) pair.
SamePair(i, j) ==
    /\ find_table[i].DistrictID = find_table[j].DistrictID
    /\ find_table[i].DataRequestTypeID = find_table[j].DataRequestTypeID

\* Request i has a status in statuses and passes the district and type
\* filters that were given.
Eligible(i) ==
    /\ find_table[i].Status \in arg_statuses
    /\ arg_district_ids # {} => find_table[i].DistrictID \in arg_district_ids
    /\ (arg_type_ids # {} \/ arg_type_names # {}) => TypeAskedFor(i)

\* C24: find_latest_requests returns at most one request per (DistrictID,
\* DataRequestTypeID) pair, the one with the greatest RequestID among the
\* requests of the pair with a status in statuses; no returned request has a
\* status outside statuses, and every pair with such a request that passes
\* the filters is represented.
C24_LatestPerPairWithStatus ==
    find_pc # "start" =>
        LET ids == {found_requests[k].RequestID : k \in DOMAIN found_requests}
        IN  /\ \A a, b \in DOMAIN found_requests :
                  SamePair(found_requests[a].RequestID, found_requests[b].RequestID)
                      => a = b
            /\ \A i \in ids :
                  /\ i \in DOMAIN find_table
                  /\ find_table[i].Status \in arg_statuses
                  /\ \A j \in DOMAIN find_table :
                        (SamePair(i, j) /\ find_table[j].Status \in arg_statuses)
                            => j <= i
            /\ \A i \in DOMAIN find_table :
                  Eligible(i) => \E j \in ids : SamePair(i, j)

\* An older request was returned for a pair whose newest request has a status
\* outside statuses.
C24_Witness ==
    /\ find_pc = "returned"
    /\ \E k \in DOMAIN found_requests :
          \E j \in DOMAIN find_table :
              /\ SamePair(found_requests[k].RequestID, j)
              /\ j > found_requests[k].RequestID
              /\ find_table[j].Status \notin arg_statuses


\* --------------------------------------------------------------------
\* retry_with_backoff

\* The wrapper has ended.
RetryEnded == retry_pc \in {"returned", "raised"}

\* C30: with max_retries = n (n >= 0) func is invoked at most n + 1 times;
\* every invocation before the last one failed with a retryable exception;
\* the wrapper returns the value of the first invocation that does not raise;
\* an exception not in `exceptions` leaves the wrapper at once; after n + 1
\* retryable failures the last exception is raised; the wrapper has slept
\* once between two consecutive invocations and not after the last one.
C30_RetryAtMostNTimes ==
    max_retries >= 0 =>
        LET n == Len(invocations)
        IN  /\ n <= max_retries + 1
            /\ \A k \in 1..(n - 1) : invocations[k] = "retryable"
            /\ (n > 0 /\ invocations[n] = "returned") =>
                  /\ retry_pc = "returned"
                  /\ retry_outcome = [kind |-> "returned", of |-> n]
            /\ (n > 0 /\ invocations[n] = "other") =>
                  /\ retry_pc = "raised"
                  /\ retry_outcome = [kind |-> "raised", of |-> n]
            /\ (n = max_retries + 1 /\ invocations[n] = "retryable") =>
                  /\ retry_pc = "raised"
                  /\ retry_outcome = [kind |-> "raised", of |-> n]
            /\ RetryEnded => (n > 0 /\ retry_outcome.of = n)
            /\ retry_pc = "returned" => invocations[n] = "returned"
            /\ retry_pc = "raised" =>
                  \/ invocations[n] = "other"
                  \/ invocations[n] = "retryable" /\ n = max_retries + 1
            /\ Len(sleeps) = IF retry_pc = "call" THEN n ELSE n - 1

\* Three retryable failures with max_retries = 2: two sleeps, then the third
\* exception is raised.
C30_Witness ==
    /\ max_retries = 2
    /\ retry_pc = "raised"
    /\ invocations = <<"retryable", "retryable", "retryable">>
    /\ Len(sleeps) = 2
    /\ retry_outcome = [kind |-> "raised", of |-> 3]


\* --------------------------------------------------------------------
\* download_files_for_requests

\* The positions of the id list the loop has handled.
Handled == 1..(dl_idx - 1)

\* The attempts made for position i, in order.
AttemptsOf(i) == SelectSeq(dl_attempts, LAMBDA a : a.idx = i)

\* The last handled position that holds id.
LastHandled(id) ==
    CHOOSE i \in Handled :
        /\ dl_request_ids[i] = id
        /\ \A j \in Handled : dl_request_ids[j] = id => j <= i

\* The attempts are made in list order, each for the id of its position, and
\* an exception of an attempt does not stop the loop: the call returns only
\* after the last id, and raises only before the first.
InListOrder ==
    /\ \A a, b \in DOMAIN dl_attempts :
          a < b => dl_attempts[a].idx <= dl_attempts[b].idx
    /\ \A a \in DOMAIN dl_attempts :
          /\ dl_attempts[a].idx \in Handled
          /\ dl_attempts[a].request_id = dl_request_ids[dl_attempts[a].idx]
    /\ dl_pc = "returned" => dl_idx = Len(dl_request_ids) + 1
    /\ dl_pc = "raised" => (dl_idx = 1 /\ dl_attempts = <<>>)

\* Raw first, and the backup exactly when the raw attempt returned without
\* success.
RawThenBackup(i) ==
    LET as == AttemptsOf(i)
    IN  /\ Len(as) <= 2
        /\ Len(as) >= 1 => as[1].kind = "raw"
        /\ Len(as) = 2 => as[2].kind = "backup"
        /\ Len(as) = 2 <=>
              (Len(as) >= 1 /\ ~as[1].outcome.raised /\ ~as[1].outcome.ok)

\* The entry of id carries the values of the last attempt made for it (the
\* failure values when that attempt raised).
EntryOfLastAttempt(id) ==
    LET as == AttemptsOf(LastHandled(id))
        last == as[Len(as)]
    IN  dl_results[id] =
            IF last.outcome.raised
            THEN DownloadEntry(FALSE, 0, "Exception during download")
            ELSE DownloadEntry(last.outcome.ok, last.outcome.count, last.kind)

\* C29 as stated: the ids are handled in list order; for each id the raw
\* attempt is made first and the backup attempt exactly when the raw one did
\* not succeed; the result map has one entry per distinct id, with the
\* success, count and message of the last attempt made; an exception of an
\* attempt becomes a success = false entry and later ids are still handled.
C29_EveryIdAttemptedRawFirst ==
    /\ InListOrder
    /\ DOMAIN dl_results = {dl_request_ids[i] : i \in Handled}
    /\ \A i \in Handled : AttemptsOf(i) # <<>> /\ RawThenBackup(i)
    /\ \A id \in DOMAIN dl_results :
          AttemptsOf(LastHandled(id)) # <<>> /\ EntryOfLastAttempt(id)

\* C29, amended: as stated for every id whose request directory could be
\* created; an id whose request directory cannot be created gets no attempt
\* and a success = false entry with count 0, and the loop goes on.
C29_AttemptsUnlessDirFails ==
    /\ InListOrder
    /\ DOMAIN dl_results = {dl_request_ids[i] : i \in Handled}
    /\ \A i \in Handled : RawThenBackup(i)
    /\ \A id \in DOMAIN dl_results :
          IF AttemptsOf(LastHandled(id)) = <<>>
          THEN dl_results[id] =
                  DownloadEntry(FALSE, 0, "Failed to create request directory")
          ELSE EntryOfLastAttempt(id)

\* Two ids were handled: the raw attempt of the first raised, the second got
\* a failed raw attempt and a successful backup attempt.
C29_Witness ==
    /\ dl_pc = "returned"
    /\ dl_request_ids = <<2, 1>>
    /\ Len(dl_attempts) = 3
    /\ dl_attempts[1].outcome.raised
    /\ dl_attempts[3].kind = "backup" /\ dl_attempts[3].outcome.ok
    /\ ~dl_results[2].success
    /\ dl_results[1].success

====
